---- MODULE Spec2Model ----
(***************************************************************************)
(* Model of the agentic tool-calling loop of uhh: the conversation Context *)
(* (internal/agent context), the Agent.Run loop and executeToolCall        *)
(* (internal/agent/agent.go) and the tool Registry lookup                   *)
(* (internal/tools/registry.go).                                            *)
(*                                                                         *)
(* Go errors are modelled as strings (the text of err.Error()), with Nil   *)
(* standing for a nil error.  The message window (50 in NewContext) and    *)
(* the iteration budget (10 in DefaultConfig) are fields of Context and    *)
(* Config; the model draws them from small ranges so that eviction and the *)
(* max-iteration exit happen within the explored behaviours.               *)
(***************************************************************************)
EXTENDS Integers, Sequences, FiniteSets, TLC

\* ---------------------------------------------------------------- bounds
\* largest Context.MaxMessages explored
MaxWindow == 3
\* largest Config.MaxIterations explored
MaxIter == 2
\* largest number of tool calls in one service response
MaxCallsPerResponse == 2
\* total number of tool calls the service requests in one behaviour
MaxToolCalls == 2
\* number of appends explored by the Context-only specification
MaxAppends == 5
\* number of Clear or Reset calls explored by the Context-only specification
MaxClears == 1
\* number of goroutines sharing one Registry
NumCallers == 2

\* ---------------------------------------------------------------- values
Nil == "<nil>"

UserPrompts == {"list files"}
AssistantTexts == {"", "Done"}
ToolNames == {"bash", "file_read", "nope"}
CallIDs == {"c1", "c2"}
ArgTexts == {"{\"command\":\"echo hi\"}"}

\* llms.ToolCall as used by the loop: ID, FunctionCall.Name, FunctionCall.Arguments
ToolCall == [ID : CallIDs, Name : ToolNames, Arguments : ArgTexts]

ToolCallSeqs == UNION {[1..n -> ToolCall] : n \in 1..MaxCallsPerResponse}

VARIABLES
    SystemPrompt,   \* Context.SystemPrompt
    Messages,       \* Context.Messages
    MaxMessages,    \* Context.MaxMessages
    appended,       \* history: every message appended to the Context since
                    \* it was new or last cleared
    registry,       \* Registry.tools: name -> tool
    config,         \* Agent.config
    confirmFn,      \* Agent.confirmFn: TRUE when a gate is configured, FALSE when nil
    pc,             \* position of the caller / Run
    i,              \* loop variable of Run
    result,         \* the Result under construction / returned
    err,            \* the error returned by Run
    toolCalls,      \* choice.ToolCalls of the response being processed
    k,              \* index of the tool call being dispatched
    execution,      \* the ToolExecution under construction in executeToolCall
    trace,          \* history: the external calls and appends of the current Run
    nToolCalls,     \* history: tool calls requested by the service so far
    returned,       \* history: what each finished tool.Execute returned, (Output, err)
    registered,     \* history: the tools passed to Register, in call order
    observed,       \* what the last read of the Registry returned
    gateArgs,       \* history: the arguments of each confirmFn call
    mu,             \* Registry.mu: the writer holding it, the number of readers
    callers,        \* the goroutines sharing a Registry: where each one is
    writing,        \* a write of Registry.tools is under way
    fsCalls,        \* history: the filesystem calls made by the file tools
    callerCtx,      \* the context handed to Run and to Execute: its Err()
    execCtx,        \* BashTool.Execute's execCtx: its Err(), what ends it
    cmd             \* BashTool.Execute's subprocess and its output buffers

ctxVars == <<SystemPrompt, Messages, MaxMessages, appended>>
lockVars == <<mu, callers, writing>>
\* all but the Context, the trace and the last observation
restVars == <<registry, config, confirmFn, pc, i, result, err, toolCalls, k,
              execution, nToolCalls, returned, registered, gateArgs, mu, callers,
              writing, fsCalls, callerCtx, execCtx, cmd>>
toolVars == <<fsCalls, callerCtx, execCtx, cmd>>
agentVars == <<registry, config, confirmFn, pc, i, result, err, toolCalls, k,
               execution, trace, nToolCalls, returned, registered, observed,
               gateArgs, lockVars, toolVars>>
vars == <<SystemPrompt, Messages, MaxMessages, appended, registry, config,
          confirmFn, pc, i, result, err, toolCalls, k, execution, trace,
          nToolCalls, returned, registered, observed, gateArgs, mu, callers,
          writing, fsCalls, callerCtx, execCtx, cmd>>

\* ---------------------------------------------------------------- Context
Message(role, content, toolID, calls) ==
    [Role |-> role, Content |-> content, ToolID |-> toolID, ToolCalls |-> calls]

\* a truncate that keeps the oldest messages instead of the newest
truncate_keepOldest(msgs, max) ==
    IF Len(msgs) > max THEN SubSeq(msgs, 1, max) ELSE msgs

\* a truncate that drops one message too few
truncate_offByOne(msgs, max) ==
    IF Len(msgs) > max + 1 THEN SubSeq(msgs, Len(msgs) - max + 1, Len(msgs)) ELSE msgs

\* c.Messages = c.Messages[len(c.Messages)-c.MaxMessages:] when over the limit
truncate(msgs, max) ==
    IF Len(msgs) > max
    THEN SubSeq(msgs, Len(msgs) - max + 1, Len(msgs))
    ELSE msgs

AddUserMessage(msgs, max, content) ==
    truncate(Append(msgs, Message("user", content, "", <<>>)), max)

AddAssistantMessage(msgs, max, content) ==
    truncate(Append(msgs, Message("assistant", content, "", <<>>)), max)

AddAssistantMessageWithToolCalls(msgs, max, content, calls) ==
    truncate(Append(msgs, Message("assistant", content, "", calls)), max)

AddToolResult(msgs, max, toolID, text) ==
    truncate(Append(msgs, Message("tool", text, toolID, <<>>)), max)

\* MaxMessages as set by NewContext
DefaultMaxMessages == 50

\* NewContext
NewContext(systemPrompt) ==
    [SystemPrompt |-> systemPrompt, Messages |-> <<>>, MaxMessages |-> DefaultMaxMessages]

\* a Context as constructed by NewContext(""), its window either the
\* default or a small one from 1..MaxWindow
InitCtx ==
    /\ SystemPrompt = NewContext("").SystemPrompt
    /\ Messages = NewContext("").Messages
    /\ MaxMessages \in {NewContext("").MaxMessages} \cup 1..MaxWindow
    /\ appended = <<>>

\* ---------------------------------------------------------------- Registry
Tool(name, requiresConfirmation) ==
    [Name |-> name, RequiresConfirmation |-> requiresConfirmation]

\* DefaultRegistry: bash and file_write require confirmation, file_read does not
DefaultRegistry ==
    [n \in {"bash", "file_read", "file_write"} |->
        Tool(n, n \in {"bash", "file_write"})]

\* a lookup that falls back to the bash tool for an unknown name
Get_fallback(reg, name) ==
    IF name \in DOMAIN reg
    THEN [tool |-> reg[name], err |-> Nil]
    ELSE [tool |-> reg["bash"], err |-> Nil]

\* Registry.Get: the tool and a nil error, or no tool and the lookup error
Get(reg, name) ==
    IF name \in DOMAIN reg
    THEN [tool |-> reg[name], err |-> Nil]
    ELSE [tool |-> Tool("", FALSE), err |-> "unknown tool: " \o name]

\* ---------------------------------------------------------------- formatting
Digit(d) == CASE d = 0 -> "0" [] d = 1 -> "1" [] d = 2 -> "2" [] d = 3 -> "3"
              [] d = 4 -> "4" [] d = 5 -> "5" [] d = 6 -> "6" [] d = 7 -> "7"
              [] d = 8 -> "8" [] d = 9 -> "9"

RECURSIVE NatToString(_)
NatToString(n) ==
    IF n < 10 THEN Digit(n) ELSE NatToString(n \div 10) \o Digit(n % 10)

\* the %d verb of fmt
FormatInt(n) == IF n < 0 THEN "-" \o NatToString(0 - n) ELSE NatToString(n)

\* a used-up budget that sets no error
MaxIterationsError_unset(n) == "<nil>"

\* fmt.Errorf("max iterations (%d) reached", a.config.MaxIterations)
MaxIterationsError(n) == "max iterations (" \o FormatInt(n) \o ") reached"

\* a zero-choice return that sets no error
NoResponseError_unset == "<nil>"

\* fmt.Errorf("no response from LLM")
NoResponseError == "no response from LLM"

SkipNotice == "Tool execution was skipped by user."

\* an error text fed back as it is, without the prefix
ErrorText_bare(e) == e

\* fmt.Sprintf("Error: %v", execution.Error)
ErrorText(e) == "Error: " \o e

\* ---------------------------------------------------------------- Agent
\* outcomes of provider.GenerateContent
ServiceErrors == {"service unavailable", "invalid api key"}
StopReasons == {"stop", "end_turn", "length"}
Choice == [Content : AssistantTexts,
           ToolCalls : ToolCallSeqs \cup {<<>>},
           StopReason : StopReasons]
\* further choices a completion may carry after Choices[0]
OtherChoices ==
    {[Content |-> "Other", ToolCalls |-> <<>>, StopReason |-> "stop"],
     [Content |-> "", ToolCalls |-> <<[ID |-> "c2", Name |-> "file_read",
                                      Arguments |-> "{\"command\":\"echo hi\"}"]>>,
      StopReason |-> "length"]}
\* response.Choices: none, one choice, or a first choice without tool calls
\* and another choice
ChoiceSeqs ==
    {<<>>} \cup {<<c>> : c \in Choice}
           \cup {<<c, d>> : c \in {x \in Choice : x.ToolCalls = <<>>},
                            d \in OtherChoices}

\* (response.Choices, err) as returned by GenerateContent
ServiceOutcomes ==
    {<<c, Nil>> : c \in ChoiceSeqs} \cup {<<<<>>, e>> : e \in ServiceErrors}

\* outcomes of the confirmation gate: (approved, err)
GateOutcomes == {<<TRUE, Nil>>, <<FALSE, Nil>>,
                 <<FALSE, "confirm failed">>, <<TRUE, "confirm failed">>}

\* tools.Output
Output(success, res, e) == [Success |-> success, Result |-> res, Error |-> e]

\* outcomes of Tool.Execute: (Output, err)
ExecuteOutcomes ==
    { <<Output(TRUE, "hi\n", ""), Nil>>,
      <<Output(FALSE, "", "exit status 1"), Nil>>,
      <<Output(FALSE, "partial", "exit status 1"), Nil>>,
      <<Output(FALSE, "", ""), "execute failed">> }

\* ToolExecution as initialised at the top of executeToolCall
\* (Duration is wall-clock time and is left out)
NewToolExecution(tc) ==
    [ToolName |-> tc.Name, Input |-> tc.Arguments, Output |-> "",
     Approved |-> FALSE, Skipped |-> FALSE, Error |-> Nil]

\* Result as initialised at the top of Run
NewResult ==
    [FinalAnswer |-> "", ToolsUsed |-> <<>>, Iterations |-> 0,
     Success |-> FALSE, Error |-> Nil]

\* Registry.mu unlocked, no goroutine in a Registry method
Callers == 1..NumCallers

IdleCaller == [pc |-> "idle", op |-> "none", arg |-> <<>>, val |-> <<>>,
               started |-> 0, seen |-> 0]

InitLock ==
    /\ mu = [writer |-> FALSE, readers |-> 0]
    /\ callers = [c \in Callers |-> IdleCaller]
    /\ writing = FALSE

\* no subprocess, no filesystem call made, a live caller context
NoCmd == [state |-> "idle", command |-> "", stdout |-> <<>>, stderr |-> <<>>,
          err |-> Nil]

\* no derived context yet: Err() nil, not linked to a parent, no timer armed
NoCtx == [err |-> Nil, parent |-> FALSE, timer |-> FALSE]

InitTool ==
    /\ fsCalls = <<>>
    /\ callerCtx = Nil
    /\ execCtx = NoCtx
    /\ cmd = NoCmd

\* nothing has been read from the Registry (since the last Register)
NoObservation == [op |-> "none", arg |-> <<>>, val |-> <<>>]

Event(ev, it, n, val) == [ev |-> ev, it |-> it, k |-> n, val |-> val]

\* the event of a GenerateContent call: it also holds the messages handed
\* to the service
ServiceCallEvent(it, msgs) ==
    [ev |-> "GenerateContent", it |-> it, k |-> 0, val |-> "", msgs |-> msgs]

\* the parts of a rendered message: a text, a tool call, a tool response
NoToolCall == [ID |-> "", Name |-> "", Arguments |-> ""]
TextContent(text) ==
    [Kind |-> "text", Text |-> text, ToolCall |-> NoToolCall, ToolCallID |-> ""]
ToolCallPart(tc) ==
    [Kind |-> "tool_call", Text |-> "", ToolCall |-> tc, ToolCallID |-> ""]
ToolCallResponse(toolCallID, content) ==
    [Kind |-> "tool_response", Text |-> content, ToolCall |-> NoToolCall,
     ToolCallID |-> toolCallID]

\* llms.TextParts(role, text)
TextParts(role, text) == [Role |-> role, Parts |-> <<TextContent(text)>>]

\* a rendering of a message that puts the text after the tool calls
RenderMessage_textLast(msg) ==
    IF msg.Role = "user" THEN <<TextParts("human", msg.Content)>>
    ELSE IF msg.Role = "assistant" THEN
        IF Len(msg.ToolCalls) > 0
        THEN <<[Role |-> "ai",
                Parts |-> [j \in DOMAIN msg.ToolCalls |-> ToolCallPart(msg.ToolCalls[j])]
                          \o (IF msg.Content # "" THEN <<TextContent(msg.Content)>>
                              ELSE <<>>)]>>
        ELSE <<TextParts("ai", msg.Content)>>
    ELSE IF msg.Role = "tool"
    THEN <<[Role |-> "tool", Parts |-> <<ToolCallResponse(msg.ToolID, msg.Content)>>]>>
    ELSE <<>>

\* the body of the loop of ToLangchainMessages: what one message adds to
\* the rendered list (nothing for a role the switch does not name)
RenderMessage(msg) ==
    IF msg.Role = "user" THEN <<TextParts("human", msg.Content)>>
    ELSE IF msg.Role = "assistant" THEN
        IF Len(msg.ToolCalls) > 0
        THEN <<[Role |-> "ai",
                Parts |-> (IF msg.Content # "" THEN <<TextContent(msg.Content)>>
                           ELSE <<>>)
                          \o [j \in DOMAIN msg.ToolCalls |-> ToolCallPart(msg.ToolCalls[j])]]>>
        ELSE <<TextParts("ai", msg.Content)>>
    ELSE IF msg.Role = "tool"
    THEN <<[Role |-> "tool", Parts |-> <<ToolCallResponse(msg.ToolID, msg.Content)>>]>>
    ELSE <<>>

RECURSIVE RenderMessages(_)
RenderMessages(msgs) ==
    IF msgs = <<>> THEN <<>>
    ELSE RenderMessage(Head(msgs)) \o RenderMessages(Tail(msgs))

\* Context.ToLangchainMessages
ToLangchainMessages(c) ==
    (IF c.SystemPrompt # "" THEN <<TextParts("system", c.SystemPrompt)>> ELSE <<>>)
        \o RenderMessages(c.Messages)

\* the Context as one value
TheContext ==
    [SystemPrompt |-> SystemPrompt, Messages |-> Messages, MaxMessages |-> MaxMessages]

\* a feedback text that drops the execution error and feeds back the output
ToolResultText_errorAsOutput(e) ==
    IF e.Skipped THEN SkipNotice ELSE e.Output

\* a feedback text that treats a skipped call like an executed one
ToolResultText_skipAsOutput(e) ==
    IF e.Error # Nil THEN ErrorText(e.Error) ELSE e.Output

\* the text of the tool-result message Run appends for an execution
ToolResultText(e) ==
    IF e.Error # Nil THEN ErrorText(e.Error)
    ELSE IF e.Skipped THEN SkipNotice
    ELSE e.Output

\* execution.Output as set from a returned tools.Output
ExecutionOutput(out) ==
    IF out.Success THEN out.Result
    ELSE IF out.Result # "" THEN out.Result \o "\n" \o out.Error
    ELSE out.Error

\* a needsConfirmation that forgets AutoApprove
needsConfirmation_ignoresAutoApprove(tool, cfg) == tool.RequiresConfirmation

\* tool.RequiresConfirmation() && !a.config.AutoApprove
needsConfirmation(tool, cfg) == tool.RequiresConfirmation /\ ~cfg.AutoApprove

\* a gate condition that forgets the nil check of confirmFn
gateIsInvoked_ignoresNil(tool, cfg, fn) == needsConfirmation(tool, cfg)

\* the condition of the gate branch: needsConfirmation && a.confirmFn != nil
gateIsInvoked(tool, cfg, fn) == needsConfirmation(tool, cfg) /\ fn

\* a gate check that looks at the answer before the error: a denial that
\* came with an error counts as a skip
gateVerdict_skipsOnError(approved, e) ==
    IF ~approved THEN "skipped"
    ELSE IF e # "<nil>" THEN "error"
    ELSE "approved"

\* a gate check that does not look at the error
gateVerdict_ignoresError(approved, e) ==
    IF ~approved THEN "skipped" ELSE "approved"

\* what executeToolCall makes of the gate's return: err != nil first, then
\* !approved, else approved
gateVerdict(approved, e) ==
    IF e # Nil THEN "error"
    ELSE IF ~approved THEN "skipped"
    ELSE "approved"

\* what the gate returned, as recorded in the trace
GateReturnText(approved, e) == (IF approved THEN "true" ELSE "false") \o "," \o e

Init ==
    /\ InitCtx
    /\ registry = DefaultRegistry
    /\ config \in [AutoApprove : BOOLEAN, MaxIterations : (-1)..MaxIter]
    /\ confirmFn \in BOOLEAN
    /\ pc = "idle"
    /\ i = 0
    /\ result = NewResult
    /\ err = Nil
    /\ toolCalls = <<>>
    /\ k = 0
    /\ execution = NewToolExecution([Name |-> "", Arguments |-> ""])
    /\ trace = <<>>
    /\ nToolCalls = 0
    /\ returned = <<>>
    /\ registered = <<>>
    /\ observed = NoObservation
    /\ gateArgs = <<>>
    /\ InitLock
    /\ InitTool

\* Run up to the head of the loop: fresh Result, the user prompt is appended
Run(userPrompt) ==
    /\ pc = "idle"
    /\ result' = NewResult
    /\ err' = Nil
    /\ Messages' = AddUserMessage(Messages, MaxMessages, userPrompt)
    /\ appended' = Append(appended, Message("user", userPrompt, "", <<>>))
    /\ i' = 0
    /\ trace' = <<Event("AddUserMessage", 0, 0, userPrompt)>>
    /\ pc' = "loop"
    /\ UNCHANGED <<SystemPrompt, MaxMessages, registry, config, confirmFn,
                   toolCalls, k, execution, nToolCalls, returned, registered, observed, gateArgs,
                   lockVars, toolVars>>

\* a loop head that counts the iterations from zero (Iterations = i)
CallService_countsFromZero ==
    /\ pc = "loop"
    /\ i < config.MaxIterations
    /\ result' = [result EXCEPT !.Iterations = i]
    /\ trace' = Append(trace, ServiceCallEvent(i + 1, ToLangchainMessages(TheContext)))
    /\ pc' = "llm"
    /\ UNCHANGED <<ctxVars, registry, config, confirmFn, i, err, toolCalls, k,
                   execution, nToolCalls, returned, registered, observed, gateArgs,
                   lockVars, toolVars>>

\* a loop head that admits one iteration too many (i <= MaxIterations)
CallService_oneTooMany ==
    /\ pc = "loop"
    /\ i <= config.MaxIterations
    /\ result' = [result EXCEPT !.Iterations = i + 1]
    /\ trace' = Append(trace, ServiceCallEvent(i + 1, ToLangchainMessages(TheContext)))
    /\ pc' = "llm"
    /\ UNCHANGED <<ctxVars, registry, config, confirmFn, i, err, toolCalls, k,
                   execution, nToolCalls, returned, registered, observed, gateArgs,
                   lockVars, toolVars>>

\* loop head with i < MaxIterations: the messages are built from the
\* Context and the service call is issued with them
CallService ==
    /\ pc = "loop"
    /\ i < config.MaxIterations
    /\ result' = [result EXCEPT !.Iterations = i + 1]
    /\ trace' = Append(trace, ServiceCallEvent(i + 1, ToLangchainMessages(TheContext)))
    /\ pc' = "llm"
    /\ UNCHANGED <<ctxVars, registry, config, confirmFn, i, err, toolCalls, k,
                   execution, nToolCalls, returned, registered, observed, gateArgs,
                   lockVars, toolVars>>

\* a max-iteration failure reported in the Result only: Run returns nil
MaxIterationsReached_nilReturn ==
    /\ pc = "loop"
    /\ ~(i < config.MaxIterations)
    /\ result' = [result EXCEPT !.Error = MaxIterationsError(config.MaxIterations)]
    /\ err' = Nil
    /\ pc' = "done"
    /\ UNCHANGED <<ctxVars, registry, config, confirmFn, i, toolCalls, k,
                   execution, trace, nToolCalls, returned, registered, observed, gateArgs,
                   lockVars, toolVars>>

\* a max-iteration failure that hands back a new, empty Result
MaxIterationsReached_dropsResult ==
    /\ pc = "loop"
    /\ ~(i < config.MaxIterations)
    /\ result' = [NewResult EXCEPT !.Error = MaxIterationsError(config.MaxIterations)]
    /\ err' = MaxIterationsError(config.MaxIterations)
    /\ pc' = "done"
    /\ UNCHANGED <<ctxVars, registry, config, confirmFn, i, toolCalls, k,
                   execution, trace, nToolCalls, returned, registered, observed, gateArgs,
                   lockVars, toolVars>>

\* a loop that is left only once i has passed MaxIterations: at
\* i = MaxIterations the run neither calls the service nor returns
MaxIterationsReached_offByOne ==
    /\ pc = "loop"
    /\ i > config.MaxIterations
    /\ result' = [result EXCEPT !.Error = MaxIterationsError(config.MaxIterations)]
    /\ err' = MaxIterationsError(config.MaxIterations)
    /\ pc' = "done"
    /\ UNCHANGED <<ctxVars, registry, config, confirmFn, i, toolCalls, k,
                   execution, trace, nToolCalls, returned, registered, observed, gateArgs,
                   lockVars, toolVars>>

\* loop head with the budget used up: the max-iteration failure
MaxIterationsReached ==
    /\ pc = "loop"
    /\ ~(i < config.MaxIterations)
    /\ result' = [result EXCEPT !.Error = MaxIterationsError(config.MaxIterations)]
    /\ err' = MaxIterationsError(config.MaxIterations)
    /\ pc' = "done"
    /\ UNCHANGED <<ctxVars, registry, config, confirmFn, i, toolCalls, k,
                   execution, trace, nToolCalls, returned, registered, observed, gateArgs,
                   lockVars, toolVars>>

\* what the service handed back, as the caller of GenerateContent sees it:
\* the kind of the return and then its error or, for a return with
\* choices, their number and the text of Choices[0]
ResponseKind(choices, e) ==
    IF e # Nil THEN "error"
    ELSE IF Len(choices) = 0 THEN "no choices"
    ELSE IF Len(choices[1].ToolCalls) > 0 THEN "tool calls"
    ELSE IF choices[1].Content # "" THEN "text"
    ELSE "empty " \o choices[1].StopReason

ResponseEvents(choices, e, it) ==
    IF e # Nil
    THEN <<Event("response", it, 0, ResponseKind(choices, e)),
           Event("serviceError", it, 0, e)>>
    ELSE IF Len(choices) = 0
    THEN <<Event("response", it, 0, ResponseKind(choices, e))>>
    ELSE <<Event("response", it, Len(choices[1].ToolCalls), ResponseKind(choices, e)),
           Event("choice", it, Len(choices), choices[1].Content)>>

\* a service error that goes unnoticed
serviceFailed_never(e) == FALSE

\* if err != nil after GenerateContent
serviceFailed(e) == e # Nil

\* the last choice instead of the first
firstChoice_last(choices) == choices[Len(choices)]

\* choice := response.Choices[0]
firstChoice(choices) == choices[1]

\* every stop reason counts as completion
signalsCompletion_anyReason(choice) == TRUE

\* only "stop" counts as completion
signalsCompletion_stopOnly(choice) == choice.StopReason = "stop"

\* choice.StopReason == "end_turn" || choice.StopReason == "stop"
signalsCompletion(choice) ==
    choice.StopReason = "end_turn" \/ choice.StopReason = "stop"

\* GenerateContent returns (choices, e); Run up to the first tool call,
\* a return, or the next turn of the loop
ServiceReturns(choices, e) ==
    /\ pc = "llm"
    /\ LET seen == trace \o ResponseEvents(choices, e, i + 1) IN
       IF serviceFailed(e) THEN
          /\ result' = [result EXCEPT !.Error = e]
          /\ err' = e
          /\ pc' = "done"
          /\ trace' = seen
          /\ UNCHANGED <<ctxVars, i, toolCalls, k, nToolCalls>>
       ELSE IF Len(choices) = 0 THEN
          /\ result' = [result EXCEPT !.Error = NoResponseError]
          /\ err' = NoResponseError
          /\ pc' = "done"
          /\ trace' = seen
          /\ UNCHANGED <<ctxVars, i, toolCalls, k, nToolCalls>>
       ELSE LET choice == firstChoice(choices) IN
          IF Len(choice.ToolCalls) > 0 THEN
             /\ nToolCalls + Len(choice.ToolCalls) <= MaxToolCalls
             /\ nToolCalls' = nToolCalls + Len(choice.ToolCalls)
             /\ Messages' = AddAssistantMessageWithToolCalls(
                                Messages, MaxMessages, choice.Content, choice.ToolCalls)
             /\ appended' = Append(appended,
                                Message("assistant", choice.Content, "", choice.ToolCalls))
             /\ toolCalls' = choice.ToolCalls
             /\ k' = 1
             /\ pc' = "dispatch"
             /\ trace' = Append(seen, Event("AddAssistantMessageWithToolCalls",
                                            i + 1, 0, choice.Content))
             /\ UNCHANGED <<SystemPrompt, MaxMessages, i, result, err>>
          ELSE IF choice.Content # "" THEN
             /\ result' = [result EXCEPT !.FinalAnswer = choice.Content,
                                          !.Success = TRUE]
             /\ Messages' = AddAssistantMessage(Messages, MaxMessages, choice.Content)
             /\ appended' = Append(appended, Message("assistant", choice.Content, "", <<>>))
             /\ err' = Nil
             /\ pc' = "done"
             /\ trace' = Append(seen, Event("AddAssistantMessage", i + 1, 0,
                                            choice.Content))
             /\ UNCHANGED <<SystemPrompt, MaxMessages, i, toolCalls, k, nToolCalls>>
          ELSE IF signalsCompletion(choice) THEN
             /\ result' = [result EXCEPT !.FinalAnswer = choice.Content,
                                          !.Success = TRUE]
             /\ err' = Nil
             /\ pc' = "done"
             /\ trace' = seen
             /\ UNCHANGED <<ctxVars, i, toolCalls, k, nToolCalls>>
          ELSE
             /\ i' = i + 1
             /\ pc' = "loop"
             /\ trace' = seen
             /\ UNCHANGED <<ctxVars, result, err, toolCalls, k, nToolCalls>>
    /\ UNCHANGED <<registry, config, confirmFn, execution, returned, registered,
                   observed, gateArgs, lockVars, toolVars>>

\* a recording that leaves the range loop after the first call: the next
\* service call is issued with calls of the response still to be dispatched
RecordExecution_leavesLoop(e) ==
    /\ result' = [result EXCEPT !.ToolsUsed = Append(@, e)]
    /\ Messages' = AddToolResult(Messages, MaxMessages, toolCalls[k].ID, ToolResultText(e))
    /\ appended' = Append(appended, Message("tool", ToolResultText(e), toolCalls[k].ID, <<>>))
    /\ execution' = e
    /\ k' = k
    /\ pc' = "loop"
    /\ i' = i + 1
    /\ UNCHANGED <<SystemPrompt, MaxMessages, registry, config, confirmFn, err,
                   toolCalls, nToolCalls, registered, observed, gateArgs,
                   lockVars>>

\* a recording that files every result under the first call's id
RecordExecution_firstID(e) ==
    /\ result' = [result EXCEPT !.ToolsUsed = Append(@, e)]
    /\ Messages' = AddToolResult(Messages, MaxMessages, toolCalls[1].ID, ToolResultText(e))
    /\ appended' = Append(appended, Message("tool", ToolResultText(e), toolCalls[1].ID, <<>>))
    /\ execution' = e
    /\ IF k < Len(toolCalls)
       THEN /\ k' = k + 1
            /\ pc' = "dispatch"
            /\ i' = i
       ELSE /\ k' = k
            /\ pc' = "loop"
            /\ i' = i + 1
    /\ UNCHANGED <<SystemPrompt, MaxMessages, registry, config, confirmFn, err,
                   toolCalls, nToolCalls, registered, observed, gateArgs,
                   lockVars>>

\* Run after executeToolCall returned e for toolCalls[k]: the execution is
\* recorded, its text is appended as the tool result, and the range loop
\* moves to the next call or, after the last, to the next iteration
RecordExecution(e) ==
    /\ result' = [result EXCEPT !.ToolsUsed = Append(@, e)]
    /\ Messages' = AddToolResult(Messages, MaxMessages, toolCalls[k].ID, ToolResultText(e))
    /\ appended' = Append(appended, Message("tool", ToolResultText(e), toolCalls[k].ID, <<>>))
    /\ execution' = e
    /\ IF k < Len(toolCalls)
       THEN /\ k' = k + 1
            /\ pc' = "dispatch"
            /\ i' = i
       ELSE /\ k' = k
            /\ pc' = "loop"
            /\ i' = i + 1
    /\ UNCHANGED <<SystemPrompt, MaxMessages, registry, config, confirmFn, err,
                   toolCalls, nToolCalls, registered, observed, gateArgs,
                   lockVars>>

\* description := fmt.Sprintf("Execute %s tool", tool.Name())
GateDescription(tool) == "Execute " \o tool.Name \o " tool"

\* executeToolCall from its start to the gate call, the Execute call, or
\* the return on a lookup error
Dispatch ==
    /\ pc = "dispatch"
    /\ LET tc == toolCalls[k]
           e0 == NewToolExecution(tc)
           got == Get(registry, tc.Name)
           called == Append(trace, Event("executeToolCall", i + 1, k, tc.Name))
       IN IF got.err # Nil THEN
             /\ RecordExecution([e0 EXCEPT !.Error = got.err])
             /\ UNCHANGED <<returned, toolVars>>
             /\ trace' = Append(called, Event("AddToolResult", i + 1, k, tc.ID))
          ELSE IF gateIsInvoked(got.tool, config, confirmFn) THEN
             /\ execution' = e0
             /\ pc' = "gate"
             /\ trace' = Append(called, Event("confirmFn", i + 1, k, got.tool.Name))
             /\ gateArgs' = Append(gateArgs,
                                   [toolName |-> got.tool.Name,
                                    description |-> GateDescription(got.tool),
                                    command |-> tc.Arguments])
             /\ UNCHANGED <<ctxVars, registry, config, confirmFn, i, result, err,
                            toolCalls, k, nToolCalls, returned, registered, observed,
                            lockVars, toolVars>>
          ELSE
             /\ execution' = [e0 EXCEPT !.Approved = TRUE]
             /\ pc' = "exec"
             /\ trace' = Append(called, Event("Execute", i + 1, k, got.tool.Name))
             /\ UNCHANGED <<ctxVars, registry, config, confirmFn, i, result, err,
                            toolCalls, k, nToolCalls, returned, registered, observed, gateArgs,
                   lockVars, toolVars>>

\* the gate returns (approved, e)
GateReturns(approved, e) ==
    /\ pc = "gate"
    /\ LET answered == Append(trace, Event("confirmReturn", i + 1, k,
                                           GateReturnText(approved, e)))
           verdict == gateVerdict(approved, e)
       IN IF verdict = "error" THEN
             /\ RecordExecution([execution EXCEPT !.Error = e])
             /\ UNCHANGED <<returned, toolVars>>
             /\ trace' = Append(answered, Event("AddToolResult", i + 1, k, toolCalls[k].ID))
          ELSE IF verdict = "skipped" THEN
             /\ RecordExecution([execution EXCEPT !.Skipped = TRUE])
             /\ UNCHANGED <<returned, toolVars>>
             /\ trace' = Append(answered, Event("AddToolResult", i + 1, k, toolCalls[k].ID))
          ELSE
             /\ execution' = [execution EXCEPT !.Approved = TRUE]
             /\ pc' = "exec"
             /\ trace' = Append(answered, Event("Execute", i + 1, k, execution.ToolName))
             /\ UNCHANGED <<ctxVars, registry, config, confirmFn, i, result, err,
                            toolCalls, k, nToolCalls, returned, registered, observed, gateArgs,
                   lockVars, toolVars>>

\* tool.Execute returns (out, e)
ToolReturns(out, e) ==
    /\ pc = "exec"
    /\ trace' = Append(trace, Event("AddToolResult", i + 1, k, toolCalls[k].ID))
    /\ returned' = Append(returned, <<out, e>>)
    /\ IF e # Nil
       THEN RecordExecution([execution EXCEPT !.Error = e])
       ELSE RecordExecution([execution EXCEPT !.Output = ExecutionOutput(out)])
    /\ UNCHANGED toolVars

Next ==
    \/ \E p \in UserPrompts : Run(p)
    \/ CallService
    \/ MaxIterationsReached
    \/ \E r \in ServiceOutcomes : ServiceReturns(r[1], r[2])
    \/ Dispatch
    \/ \E g \in GateOutcomes : GateReturns(g[1], g[2])
    \/ \E x \in ExecuteOutcomes : ToolReturns(x[1], x[2])

Spec == Init /\ [][Next]_vars

\* ------------------------------------------------- Context used on its own
\* the appends a caller of the Context can make, in any order
CtxToolCallSeqs ==
    { <<[ID |-> "c1", Name |-> "bash", Arguments |-> "{\"command\":\"echo hi\"}"]>>,
      <<[ID |-> "c1", Name |-> "file_read", Arguments |-> "{\"command\":\"echo hi\"}"],
        [ID |-> "c2", Name |-> "bash", Arguments |-> "{\"command\":\"echo hi\"}"]>> }
\* one call without text, two calls with the text "Done"
CtxToolCallMessages ==
    {<<IF Len(tcs) = 1 THEN "" ELSE "Done", tcs>> : tcs \in CtxToolCallSeqs}
CtxToolResults == {"hi\n"}

CtxAddUserMessage(content) ==
    /\ Len(appended) < MaxAppends
    /\ Messages' = AddUserMessage(Messages, MaxMessages, content)
    /\ appended' = Append(appended, Message("user", content, "", <<>>))
    /\ observed' = NoObservation
    /\ UNCHANGED <<SystemPrompt, MaxMessages, trace, restVars>>

CtxAddAssistantMessage(content) ==
    /\ Len(appended) < MaxAppends
    /\ Messages' = AddAssistantMessage(Messages, MaxMessages, content)
    /\ appended' = Append(appended, Message("assistant", content, "", <<>>))
    /\ observed' = NoObservation
    /\ UNCHANGED <<SystemPrompt, MaxMessages, trace, restVars>>

CtxAddAssistantMessageWithToolCalls(content, calls) ==
    /\ Len(appended) < MaxAppends
    /\ Messages' = AddAssistantMessageWithToolCalls(Messages, MaxMessages, content, calls)
    /\ appended' = Append(appended, Message("assistant", content, "", calls))
    /\ observed' = NoObservation
    /\ UNCHANGED <<SystemPrompt, MaxMessages, trace, restVars>>

CtxAddToolResult(toolID, text) ==
    /\ Len(appended) < MaxAppends
    /\ Messages' = AddToolResult(Messages, MaxMessages, toolID, text)
    /\ appended' = Append(appended, Message("tool", text, toolID, <<>>))
    /\ observed' = NoObservation
    /\ UNCHANGED <<SystemPrompt, MaxMessages, trace, restVars>>

\* a Clear that starts over with a new Context
Clear_newContext(c) == NewContext("")

\* Context.Clear: c.Messages = make([]Message, 0)
Clear(c) == [c EXCEPT !.Messages = <<>>]

SystemPrompts == {"", "You are a shell assistant."}

\* Context.Clear
CtxClear ==
    /\ Len(trace) < MaxClears
    /\ SystemPrompt' = Clear(TheContext).SystemPrompt
    /\ Messages' = Clear(TheContext).Messages
    /\ MaxMessages' = Clear(TheContext).MaxMessages
    /\ appended' = <<>>
    /\ trace' = Append(trace, Event("Clear", 0, 0, ""))
    /\ observed' = NoObservation
    /\ UNCHANGED restVars

\* Agent.Reset: a.context.Clear()
Reset ==
    /\ Len(trace) < MaxClears
    /\ SystemPrompt' = Clear(TheContext).SystemPrompt
    /\ Messages' = Clear(TheContext).Messages
    /\ MaxMessages' = Clear(TheContext).MaxMessages
    /\ appended' = <<>>
    /\ trace' = Append(trace, Event("Reset", 0, 0, ""))
    /\ observed' = NoObservation
    /\ UNCHANGED restVars

\* Agent.SetSystemPrompt: a.context.SystemPrompt = prompt
SetSystemPrompt(prompt) ==
    /\ SystemPrompt' = prompt
    /\ observed' = NoObservation
    /\ UNCHANGED <<Messages, MaxMessages, appended, trace, restVars>>

\* Context.ToLangchainMessages is called
CtxToLangchainMessages ==
    /\ observed' = [op |-> "ToLangchainMessages", arg |-> <<>>,
                    val |-> ToLangchainMessages(TheContext)]
    /\ UNCHANGED <<ctxVars, trace, restVars>>

\* a Context from NewContext with no run of the Agent around it (zero
\* Config)
InitContext ==
    /\ InitCtx
    /\ registry = DefaultRegistry
    /\ config = [AutoApprove |-> FALSE, MaxIterations |-> 0]
    /\ confirmFn = FALSE
    /\ pc = "idle"
    /\ i = 0
    /\ result = NewResult
    /\ err = Nil
    /\ toolCalls = <<>>
    /\ k = 0
    /\ execution = NewToolExecution([Name |-> "", Arguments |-> ""])
    /\ trace = <<>>
    /\ nToolCalls = 0
    /\ returned = <<>>
    /\ registered = <<>>
    /\ observed = NoObservation
    /\ gateArgs = <<>>
    /\ InitLock
    /\ InitTool

NextCtx ==
    \/ \E c \in UserPrompts : CtxAddUserMessage(c)
    \/ \E c \in AssistantTexts : CtxAddAssistantMessage(c)
    \/ \E m \in CtxToolCallMessages : CtxAddAssistantMessageWithToolCalls(m[1], m[2])
    \/ \E id \in CallIDs, r \in CtxToolResults : CtxAddToolResult(id, r)
    \/ CtxClear
    \/ Reset
    \/ \E prompt \in SystemPrompts : SetSystemPrompt(prompt)
    \/ CtxToLangchainMessages

SpecCtx == InitContext /\ [][NextCtx]_vars

\* ------------------------------------------------ specification: Registry
\* a Registry on its own: Register calls and reads, from NewRegistry on
MaxRegisters == 3

\* NewRegistry: an empty map
NewRegistry == [n \in {} |-> Tool("", FALSE)]

\* a Register that keeps the tool already registered under the name
Register_keepsFirst(reg, tool) ==
    IF tool.Name \in DOMAIN reg THEN reg
    ELSE [n \in DOMAIN reg \cup {tool.Name} |->
            IF n = tool.Name THEN tool ELSE reg[n]]

\* Registry.Register: r.tools[tool.Name()] = tool
Register(reg, tool) ==
    [n \in DOMAIN reg \cup {tool.Name} |-> IF n = tool.Name THEN tool ELSE reg[n]]

\* the orders in which a range over a map with key set S may visit the keys
KeyOrders(S) ==
    {p \in [1..Cardinality(S) -> S] : \A x \in S : \E j \in DOMAIN p : p[j] = x}

\* Registry.Names: the keys of the map, in map iteration order (any order)
Names(reg) == KeyOrders(DOMAIN reg)

\* Registry.All: the values of the map, in map iteration order (any order)
All(reg) == {[j \in DOMAIN p |-> reg[p[j]]] : p \in KeyOrders(DOMAIN reg)}

\* the tools handed to Register: two names, and under each name two tools
\* that differ in RequiresConfirmation
RegisteredTools == {Tool(n, r) : n \in {"bash", "file_read"}, r \in BOOLEAN}

\* a Registry from NewRegistry with no Agent around it
InitRegistry ==
    /\ InitCtx
    /\ registry = NewRegistry
    /\ config = [AutoApprove |-> FALSE, MaxIterations |-> 0]
    /\ confirmFn = FALSE
    /\ pc = "idle"
    /\ i = 0
    /\ result = NewResult
    /\ err = Nil
    /\ toolCalls = <<>>
    /\ k = 0
    /\ execution = NewToolExecution([Name |-> "", Arguments |-> ""])
    /\ trace = <<>>
    /\ nToolCalls = 0
    /\ returned = <<>>
    /\ registered = <<>>
    /\ observed = NoObservation
    /\ gateArgs = <<>>
    /\ InitLock
    /\ InitTool

RegRegister(tool) ==
    /\ Len(registered) < MaxRegisters
    /\ registry' = Register(registry, tool)
    /\ registered' = Append(registered, tool)
    /\ observed' = NoObservation
    /\ UNCHANGED <<ctxVars, config, confirmFn, pc, i, result, err, toolCalls, k,
                   execution, trace, nToolCalls, returned, gateArgs, lockVars,
                   toolVars>>

RegGet(name) ==
    /\ observed' = [op |-> "Get", arg |-> <<name>>, val |-> <<Get(registry, name)>>]
    /\ UNCHANGED <<ctxVars, registry, config, confirmFn, pc, i, result, err,
                   toolCalls, k, execution, trace, nToolCalls, returned, registered,
                   gateArgs, lockVars, toolVars>>

RegAll ==
    /\ \E tools \in All(registry) :
          observed' = [op |-> "All", arg |-> <<>>, val |-> tools]
    /\ UNCHANGED <<ctxVars, registry, config, confirmFn, pc, i, result, err,
                   toolCalls, k, execution, trace, nToolCalls, returned, registered,
                   gateArgs, lockVars, toolVars>>

RegNames ==
    /\ \E names \in Names(registry) :
          observed' = [op |-> "Names", arg |-> <<>>, val |-> names]
    /\ UNCHANGED <<ctxVars, registry, config, confirmFn, pc, i, result, err,
                   toolCalls, k, execution, trace, nToolCalls, returned, registered,
                   gateArgs, lockVars, toolVars>>

NextReg ==
    \/ \E tool \in RegisteredTools : RegRegister(tool)
    \/ \E name \in ToolNames : RegGet(name)
    \/ RegAll
    \/ RegNames

SpecReg == InitRegistry /\ [][NextReg]_vars

\* ------------------------------------- specification: a shared Registry
\* goroutines calling the methods of one Registry concurrently; a method is
\* the call, the acquisition of r.mu, the body, and the deferred release

\* Registry.Has
Has(reg, name) == name \in DOMAIN reg

\* Registry.FilterByNames: the tools whose name is in names, in map
\* iteration order (any order)
FilterByNames(reg, names) ==
    LET nameSet == {names[j] : j \in DOMAIN names} IN
       {[j \in DOMAIN p |-> reg[p[j]]] : p \in KeyOrders(DOMAIN reg \cap nameSet)}

\* an r.mu.Lock() that does not wait for the readers to leave
CanLock_ignoresReaders(m) == ~m.writer

\* r.mu.Lock() returns: no writer and no reader holds the lock
CanLock(m) == ~m.writer /\ m.readers = 0

\* r.mu.RLock() returns: no writer holds the lock
CanRLock(m) == ~m.writer

\* what a read method returns on the map reg
ReadResults(op, arg, reg) ==
    CASE op = "Get" -> {<<Get(reg, arg[1])>>}
      [] op = "Has" -> {<<Has(reg, arg[1])>>}
      [] op = "All" -> All(reg)
      [] op = "Names" -> Names(reg)
      [] op = "FilterByNames" -> FilterByNames(reg, arg[1])

\* a read of the map while a write of it is under way is a data race: the
\* runtime may stop the program ("concurrent map read and map write"), or
\* the read sees the map as it was or as it will be
RacyReadResults(op, arg, reg, tool) ==
    {[ok |-> FALSE, res |-> <<>>]}
        \cup {[ok |-> TRUE, res |-> r] : r \in ReadResults(op, arg, reg)}
        \cup {[ok |-> TRUE, res |-> r] : r \in ReadResults(op, arg, Register(reg, tool))}

\* the calls the goroutines make
SharedTools == {Tool("bash", TRUE), Tool("bash", FALSE), Tool("file_read", FALSE)}

SharedCalls ==
    {[op |-> "Register", arg |-> <<t>>] : t \in SharedTools}
        \cup {[op |-> "Get", arg |-> <<n>>] : n \in {"bash", "file_read"}}
        \cup {[op |-> "Has", arg |-> <<"bash">>],
              [op |-> "All", arg |-> <<>>],
              [op |-> "Names", arg |-> <<>>],
              [op |-> "FilterByNames", arg |-> <<<<"bash", "nope">>>>]}

\* the Register calls that have been made and have not yet written the map
PendingRegisters ==
    {c \in Callers : callers[c].op = "Register" /\ callers[c].pc \in {"lock", "body", "write"}}

InitShared ==
    /\ SystemPrompt = ""
    /\ Messages = <<>>
    /\ MaxMessages = DefaultMaxMessages
    /\ appended = <<>>
    /\ registry = NewRegistry
    /\ config = [AutoApprove |-> FALSE, MaxIterations |-> 0]
    /\ confirmFn = FALSE
    /\ pc = "idle"
    /\ i = 0
    /\ result = NewResult
    /\ err = Nil
    /\ toolCalls = <<>>
    /\ k = 0
    /\ execution = NewToolExecution([Name |-> "", Arguments |-> ""])
    /\ trace = <<>>
    /\ nToolCalls = 0
    /\ returned = <<>>
    /\ registered = <<>>
    /\ observed = NoObservation
    /\ gateArgs = <<>>
    /\ InitLock
    /\ InitTool

\* goroutine c calls a method
SharedCall(c, call) ==
    /\ callers[c].pc = "idle"
    /\ call.op = "Register" =>
          Len(registered) + Cardinality(PendingRegisters) < MaxRegisters
    /\ callers' = [callers EXCEPT ![c] =
                      [pc |-> "lock", op |-> call.op, arg |-> call.arg, val |-> <<>>,
                       started |-> Len(registered), seen |-> 0]]
    /\ UNCHANGED <<ctxVars, registry, config, confirmFn, pc, i, result, err,
                   toolCalls, k, execution, trace, nToolCalls, returned, registered,
                   observed, gateArgs, mu, writing, toolVars>>

\* r.mu.Lock() or r.mu.RLock() returns in goroutine c
SharedAcquire(c) ==
    /\ callers[c].pc = "lock"
    /\ IF callers[c].op = "Register"
       THEN /\ CanLock(mu)
            /\ mu' = [mu EXCEPT !.writer = TRUE]
       ELSE /\ CanRLock(mu)
            /\ mu' = [mu EXCEPT !.readers = @ + 1]
    /\ callers' = [callers EXCEPT ![c].pc = "body"]
    /\ UNCHANGED <<ctxVars, registry, config, confirmFn, pc, i, result, err,
                   toolCalls, k, execution, trace, nToolCalls, returned, registered,
                   observed, gateArgs, writing, toolVars>>

\* Register in goroutine c starts the map assignment
SharedWriteBegin(c) ==
    /\ callers[c].pc = "body"
    /\ callers[c].op = "Register"
    /\ writing' = TRUE
    /\ callers' = [callers EXCEPT ![c].pc = "write"]
    /\ UNCHANGED <<ctxVars, registry, config, confirmFn, pc, i, result, err,
                   toolCalls, k, execution, trace, nToolCalls, returned, registered,
                   observed, gateArgs, mu, toolVars>>

\* Register in goroutine c finishes the map assignment
SharedWriteEnd(c) ==
    /\ callers[c].pc = "write"
    /\ registry' = Register(registry, callers[c].arg[1])
    /\ registered' = Append(registered, callers[c].arg[1])
    /\ writing' = FALSE
    /\ callers' = [callers EXCEPT ![c].pc = "unlock"]
    /\ UNCHANGED <<ctxVars, config, confirmFn, pc, i, result, err, toolCalls, k,
                   execution, trace, nToolCalls, returned, observed, gateArgs, mu,
                   toolVars>>

\* a read method in goroutine c reads the map
SharedRead(c) ==
    /\ callers[c].pc = "body"
    /\ callers[c].op # "Register"
    /\ \E v \in (IF writing
                 THEN UNION {RacyReadResults(callers[c].op, callers[c].arg, registry,
                                             callers[w].arg[1]) :
                                w \in {x \in Callers : callers[x].pc = "write"}}
                 ELSE {[ok |-> TRUE, res |-> r] :
                          r \in ReadResults(callers[c].op, callers[c].arg, registry)}) :
          callers' = [callers EXCEPT ![c].pc = "unlock", ![c].val = v,
                                     ![c].seen = Len(registered)]
    /\ UNCHANGED <<ctxVars, registry, config, confirmFn, pc, i, result, err,
                   toolCalls, k, execution, trace, nToolCalls, returned, registered,
                   observed, gateArgs, mu, writing, toolVars>>

\* the deferred Unlock or RUnlock runs and the method returns in goroutine c
SharedRelease(c) ==
    /\ callers[c].pc = "unlock"
    /\ mu' = IF callers[c].op = "Register"
             THEN [mu EXCEPT !.writer = FALSE]
             ELSE [mu EXCEPT !.readers = @ - 1]
    /\ callers' = [callers EXCEPT ![c] = IdleCaller]
    /\ UNCHANGED <<ctxVars, registry, config, confirmFn, pc, i, result, err,
                   toolCalls, k, execution, trace, nToolCalls, returned, registered,
                   observed, gateArgs, writing, toolVars>>

NextShared ==
    \/ \E c \in Callers, call \in SharedCalls : SharedCall(c, call)
    \/ \E c \in Callers : SharedAcquire(c)
    \/ \E c \in Callers : SharedWriteBegin(c)
    \/ \E c \in Callers : SharedWriteEnd(c)
    \/ \E c \in Callers : SharedRead(c)
    \/ \E c \in Callers : SharedRelease(c)

SpecShared == InitShared /\ [][NextShared]_vars

\* ---------------------------------------------------------------- claims
Min(a, b) == IF a < b THEN a ELSE b

\* C1: after every append the number of retained messages is at most
\* MaxMessages
C1_WindowBound == Len(Messages) <= MaxMessages

\* more messages were appended than the window holds, and the window is full
C1_Witness ==
    /\ Len(appended) > MaxMessages
    /\ Len(Messages) = MaxMessages

\* C2: the retained messages are exactly the last min(n, MaxMessages) of the
\* n messages appended so far, in append order and unaltered
C2_FIFOEviction ==
    LET n == Len(appended)
        m == Min(n, MaxMessages)
    IN Messages = SubSeq(appended, n - m + 1, n)

\* at least two messages have been evicted from a window of two or more
C2_Witness ==
    /\ MaxMessages >= 2
    /\ Len(appended) >= MaxMessages + 2
    /\ Messages = SubSeq(appended, Len(appended) - MaxMessages + 1, Len(appended))

\* ---- reading the trace of a Run
TracePos == 1..Len(trace)

\* number of Language Model Service calls issued so far
ServiceCalls == Cardinality({a \in TracePos : trace[a].ev = "GenerateContent"})

\* every response received so far carried at least one tool call
EveryResponseHasToolCalls ==
    \A a \in TracePos : trace[a].ev = "response" => trace[a].val = "tool calls"

\* C3: with MaxIterations = N >= 1 and a service that returns tool calls on
\* every call, Run never makes more than N service calls, and when it has
\* returned it made exactly N calls and ended in the max-iteration failure
\* with Success = false and Iterations = N
C3_IterationBound ==
    (config.MaxIterations >= 1 /\ EveryResponseHasToolCalls) =>
        /\ ServiceCalls <= config.MaxIterations
        /\ pc = "done" =>
              /\ ServiceCalls = config.MaxIterations
              /\ err = "max iterations (" \o FormatInt(config.MaxIterations) \o ") reached"
              /\ result.Error = err
              /\ result.Success = FALSE
              /\ result.Iterations = config.MaxIterations

\* a finished run of two or more iterations, each of which got tool calls
C3_Witness ==
    /\ pc = "done"
    /\ config.MaxIterations >= 2
    /\ ServiceCalls >= 2
    /\ EveryResponseHasToolCalls

\* ---- reading the Context history and the Result of a Run
AppendedPos == 1..Len(appended)

HasToolCalls(m) == m.Role = "assistant" /\ Len(m.ToolCalls) > 0

\* the tool-result messages appended so far, in append order
ToolMessages == SelectSeq(appended, LAMBDA m : m.Role = "tool")

RECURSIVE CallsOf(_)
\* the tool calls recorded by the assistant messages of msgs, in order
CallsOf(msgs) ==
    IF msgs = <<>> THEN <<>>
    ELSE (IF HasToolCalls(Head(msgs)) THEN Head(msgs).ToolCalls ELSE <<>>)
         \o CallsOf(Tail(msgs))

\* number of tool-result appends among the first a events of the trace
ToolResultsUpTo(a) ==
    Cardinality({b \in 1..a : trace[b].ev = "AddToolResult"})

\* number of calls handed to executeToolCall among the first a events
DispatchesUpTo(a) ==
    Cardinality({b \in 1..a : trace[b].ev = "executeToolCall"})

\* number of tool calls of the response being processed at event a
CallsInResponseAt(a) ==
    LET rs == {b \in 1..a : trace[b].ev = "response"}
        last == CHOOSE b \in rs : \A c \in rs : c <= b
    IN trace[last].k

\* after the tool-result append at event a the run goes on: to the next
\* call of the same response, or after the last call to the next turn of
\* the loop (whose only exit without a service call is the iteration budget)
RunContinuesAfter(a) ==
    LET e == trace[a] IN
    IF e.k < CallsInResponseAt(a) THEN
        IF a = Len(trace)
        THEN pc = "dispatch" /\ k = e.k + 1 /\ i + 1 = e.it
        ELSE /\ trace[a + 1].ev = "executeToolCall"
             /\ trace[a + 1].it = e.it
             /\ trace[a + 1].k = e.k + 1
    ELSE
        IF a = Len(trace)
        THEN /\ i = e.it
             /\ \/ pc = "loop"
                \/ /\ pc = "done"
                   /\ i >= config.MaxIterations
                   /\ result.Error =
                        "max iterations (" \o FormatInt(config.MaxIterations) \o ") reached"
        ELSE /\ trace[a + 1].ev = "GenerateContent"
             /\ trace[a + 1].it = e.it + 1
             /\ trace[a + 1].k = 0

\* C4: a response's tool calls are recorded by one assistant message, which
\* is followed by one tool-result message per call, in call order and under
\* the call's id; each call is handed to executeToolCall once, its tool is
\* executed at most once, a call is started only after the result of the
\* previous one was appended, ToolsUsed holds one execution per call in the
\* same order, and after the last call the run goes on to the next iteration
C4_SequentialDispatch ==
    /\ \A a \in AppendedPos : HasToolCalls(appended[a]) =>
          LET n == Len(appended[a].ToolCalls) IN
          /\ \A j \in 1..n : a + j <= Len(appended) =>
                /\ appended[a + j].Role = "tool"
                /\ appended[a + j].ToolID = appended[a].ToolCalls[j].ID
          /\ a + n + 1 <= Len(appended) => appended[a + n + 1].Role # "tool"
          /\ a + n > Len(appended) =>
                /\ pc \in {"dispatch", "gate", "exec"}
                /\ appended[a].ToolCalls = toolCalls
                /\ k = Len(appended) - a + 1
    /\ \A b \in AppendedPos : appended[b].Role = "tool" =>
          \E a \in 1..(b - 1) :
              /\ HasToolCalls(appended[a])
              /\ b - a <= Len(appended[a].ToolCalls)
    /\ Len(result.ToolsUsed) = Len(ToolMessages)
    /\ Len(result.ToolsUsed) <= Len(CallsOf(appended))
    /\ \A n \in 1..Len(result.ToolsUsed) :
          /\ result.ToolsUsed[n].ToolName = CallsOf(appended)[n].Name
          /\ result.ToolsUsed[n].Input = CallsOf(appended)[n].Arguments
          /\ ToolMessages[n].ToolID = CallsOf(appended)[n].ID
    /\ \A a, b \in TracePos :
          (/\ a < b
           /\ trace[a].ev = trace[b].ev
           /\ trace[a].ev \in {"executeToolCall", "confirmFn", "Execute", "AddToolResult"})
          => <<trace[a].it, trace[a].k>> # <<trace[b].it, trace[b].k>>
    /\ \A a \in TracePos : trace[a].ev = "executeToolCall" =>
          /\ ToolResultsUpTo(a) = DispatchesUpTo(a) - 1
          /\ trace[a].val = CallsOf(appended)[DispatchesUpTo(a)].Name
    /\ DispatchesUpTo(Len(trace)) =
          Len(result.ToolsUsed) + (IF pc \in {"gate", "exec"} THEN 1 ELSE 0)
    /\ \A a \in TracePos : trace[a].ev = "AddToolResult" => RunContinuesAfter(a)

\* a response with two calls of different ids and tools was dispatched in
\* full and the service call of the next iteration is in flight
C4_Witness ==
    /\ pc = "llm"
    /\ ServiceCalls = 2
    /\ Len(result.ToolsUsed) = 2
    /\ \E a \in AppendedPos :
          /\ HasToolCalls(appended[a])
          /\ Len(appended[a].ToolCalls) = 2
          /\ appended[a].ToolCalls[1].ID # appended[a].ToolCalls[2].ID
          /\ appended[a].ToolCalls[1].Name # appended[a].ToolCalls[2].Name

\* C5: every retained tool-role message's ToolID is the id of a tool call of
\* the most recent retained assistant message before it
C5_CallResultPairing ==
    \A b \in 1..Len(Messages) : Messages[b].Role = "tool" =>
        \E a \in 1..(b - 1) :
            /\ Messages[a].Role = "assistant"
            /\ \A c \in (a + 1)..(b - 1) : Messages[c].Role # "assistant"
            /\ \E j \in 1..Len(Messages[a].ToolCalls) :
                  Messages[a].ToolCalls[j].ID = Messages[b].ToolID

\* ---- reading single calls off the trace
IsEvent(a, ev, it, n) ==
    /\ a \in TracePos
    /\ trace[a].ev = ev
    /\ trace[a].it = it
    /\ trace[a].k = n

\* the tool of call (it, n) was executed at some point
Executed(it, n) == \E b \in TracePos : IsEvent(b, "Execute", it, n)

\* the gate was asked about call (it, n) at some point
GateAsked(it, n) == \E b \in TracePos : IsEvent(b, "confirmFn", it, n)

C7_SkipSemantics ==
    \A a \in TracePos :
        (trace[a].ev = "confirmReturn" /\ trace[a].val = "false,<nil>") =>
            /\ IsEvent(a + 1, "AddToolResult", trace[a].it, trace[a].k)
            /\ ~Executed(trace[a].it, trace[a].k)
            /\ LET n == ToolResultsUpTo(a + 1) IN
                  /\ result.ToolsUsed[n].Skipped = TRUE
                  /\ result.ToolsUsed[n].Approved = FALSE
                  /\ result.ToolsUsed[n].Error = Nil
                  /\ ToolMessages[n].Content = "Tool execution was skipped by user."
                  /\ ToolMessages[n].ToolID = trace[a + 1].val
            /\ RunContinuesAfter(a + 1)

\* the first call of a response was denied, the second call of the same
\* response was dispatched and the next iteration's service call was issued
C7_Witness ==
    \E a, b, c \in TracePos :
        /\ trace[a].ev = "confirmReturn" /\ trace[a].val = "false,<nil>"
        /\ trace[a].k = 1
        /\ IsEvent(b, "executeToolCall", trace[a].it, 2)
        /\ IsEvent(c, "GenerateContent", trace[a].it + 1, 0)

\* C8: when the gate returns an error, the tool is not executed, the error
\* is the ToolExecution's Error (neither approved nor skipped), the error
\* text is the call's tool result, and the run goes on
C8_GateError ==
    \A a \in TracePos : \A g \in GateOutcomes :
        (/\ trace[a].ev = "confirmReturn"
         /\ g[2] # Nil
         /\ trace[a].val = GateReturnText(g[1], g[2])) =>
            /\ IsEvent(a + 1, "AddToolResult", trace[a].it, trace[a].k)
            /\ ~Executed(trace[a].it, trace[a].k)
            /\ LET n == ToolResultsUpTo(a + 1) IN
                  /\ result.ToolsUsed[n].Error = g[2]
                  /\ result.ToolsUsed[n].Approved = FALSE
                  /\ result.ToolsUsed[n].Skipped = FALSE
                  /\ ToolMessages[n].Content = "Error: " \o g[2]
                  /\ ToolMessages[n].ToolID = trace[a + 1].val
            /\ RunContinuesAfter(a + 1)

\* the gate failed on the first call of a response although it said
\* approved = true, the second call was dispatched and the next iteration's
\* service call was issued
C8_Witness ==
    \E a, b, c \in TracePos :
        /\ trace[a].ev = "confirmReturn" /\ trace[a].val = "true,confirm failed"
        /\ trace[a].k = 1
        /\ IsEvent(b, "executeToolCall", trace[a].it, 2)
        /\ IsEvent(c, "GenerateContent", trace[a].it + 1, 0)

\* the ToolExecution of the call whose Execute is event b: the one under
\* construction while the tool runs, the recorded one afterwards
ExecutionOf(b) ==
    IF b = Len(trace) THEN execution ELSE result.ToolsUsed[ToolResultsUpTo(b + 1)]

C10_UnknownTool ==
    \A a \in TracePos :
        (trace[a].ev = "executeToolCall" /\ trace[a].val \notin DOMAIN registry) =>
            /\ IsEvent(a + 1, "AddToolResult", trace[a].it, trace[a].k)
            /\ ~Executed(trace[a].it, trace[a].k)
            /\ ~GateAsked(trace[a].it, trace[a].k)
            /\ LET n == ToolResultsUpTo(a + 1) IN
                  /\ result.ToolsUsed[n].ToolName = trace[a].val
                  /\ result.ToolsUsed[n].Error = "unknown tool: " \o trace[a].val
                  /\ result.ToolsUsed[n].Approved = FALSE
                  /\ result.ToolsUsed[n].Skipped = FALSE
                  /\ ToolMessages[n].Content = "Error: unknown tool: " \o trace[a].val
                  /\ ToolMessages[n].ToolID = trace[a + 1].val
            /\ RunContinuesAfter(a + 1)

\* an unknown tool was called first in a response, the second call of the
\* response was executed and the next iteration's service call was issued
C10_Witness ==
    \E a, b, c \in TracePos :
        /\ trace[a].ev = "executeToolCall" /\ trace[a].val = "nope"
        /\ trace[a].k = 1
        /\ IsEvent(b, "Execute", trace[a].it, 2)
        /\ IsEvent(c, "GenerateContent", trace[a].it + 1, 0)

\* C11: the text of each tool-result message appended to the Context is
\* "Error: " and the execution's error when the ToolExecution has an error;
\* failing that the skip notice when it was skipped; failing that the
\* execution's output; one message per execution
C11_FedBackText ==
    /\ Len(ToolMessages) = Len(result.ToolsUsed)
    /\ \A n \in 1..Len(result.ToolsUsed) :
          LET e == result.ToolsUsed[n] IN
             ToolMessages[n].Content =
                IF e.Error # "<nil>" THEN "Error: " \o e.Error
                ELSE IF e.Skipped THEN "Tool execution was skipped by user."
                ELSE e.Output

\* one run fed back the error text of a failed execution and the skip
\* notice of a denied call
C11_Witness ==
    \E n, m \in 1..Len(result.ToolsUsed) :
        /\ result.ToolsUsed[n].Error = "execute failed"
        /\ ToolMessages[n].Content = "Error: execute failed"
        /\ result.ToolsUsed[m].Skipped
        /\ ToolMessages[m].Content = "Tool execution was skipped by user."

\* the events of the trace that append a message to the Context
AppendEvents ==
    {a \in TracePos : trace[a].ev \in {"AddUserMessage", "AddAssistantMessage",
                                       "AddAssistantMessageWithToolCalls",
                                       "AddToolResult"}}

\* C12: when a service call fails, the run is over at once: it has failed
\* with the service's error, the iteration count is that of the failed
\* call, and nothing follows the failure: no service call, no gate or tool
\* call and no append to the Context
C12_ServiceFailureFatal ==
    /\ Len(appended) = Cardinality(AppendEvents)
    /\ \A a \in TracePos :
          (trace[a].ev = "response" /\ trace[a].val = "error") =>
              /\ Len(trace) = a + 1
              /\ trace[a + 1].ev = "serviceError"
              /\ pc = "done"
              /\ result.Error = trace[a + 1].val
              /\ result.Error # "<nil>"
              /\ result.Success = FALSE
              /\ result.FinalAnswer = ""
              /\ result.Iterations = trace[a].it

\* the service failed in the second iteration, after the first iteration
\* had a tool executed
C12_Witness ==
    \E a \in TracePos :
        /\ trace[a].ev = "response" /\ trace[a].val = "error" /\ trace[a].it = 2
        /\ \E b \in 1..a : trace[b].ev = "Execute" /\ trace[b].it = 1
        /\ result.Error = "invalid api key"

\* C13: when the service call returns without error and without choices,
\* the run ends there as failed with the error "no response from LLM",
\* Success false and no final answer, and the Context is what it was before
\* the call
C13_ZeroChoices ==
    [][(/\ pc = "llm"
        /\ Len(trace') = Len(trace) + 1
        /\ trace'[Len(trace')] = Event("response", i + 1, 0, "no choices")) =>
           (/\ pc' = "done"
            /\ result'.Error = "no response from LLM"
            /\ result'.Success = FALSE
            /\ result'.FinalAnswer = ""
            /\ result'.Iterations = i + 1
            /\ result'.ToolsUsed = result.ToolsUsed
            /\ Messages' = Messages
            /\ appended' = appended
            /\ SystemPrompt' = SystemPrompt
            /\ MaxMessages' = MaxMessages)]_vars

\* the second service call returned no choices; the Context still holds the
\* messages of the first iteration
C13_Witness ==
    /\ pc = "done"
    /\ trace # <<>>
    /\ trace[Len(trace)] = Event("response", 2, 0, "no choices")
    /\ result.Error = "no response from LLM"
    /\ Len(Messages) = 3
    /\ Messages[3].Role = "tool"

\* the plain assistant messages (no tool calls) appended so far
PlainAssistantMessages ==
    SelectSeq(appended, LAMBDA m : m.Role = "assistant" /\ Len(m.ToolCalls) = 0)

\* C14: when Choices[0] of a completion has text and no tool calls, the run
\* ends there as succeeded: FinalAnswer is that text, Success is true, there
\* is no error, and that text has been appended as the run's one plain
\* assistant message, the last message appended; whatever a further choice
\* of the completion holds changes nothing
C14_FinalAnswer ==
    \A a \in TracePos :
        (trace[a].ev = "response" /\ trace[a].val = "text") =>
            /\ Len(trace) = a + 2
            /\ trace[a + 1].ev = "choice"
            /\ LET text == trace[a + 1].val IN
                  /\ text # ""
                  /\ trace[a + 2] = Event("AddAssistantMessage", trace[a].it, 0, text)
                  /\ pc = "done"
                  /\ result.Success = TRUE
                  /\ result.FinalAnswer = text
                  /\ result.Error = "<nil>"
                  /\ result.Iterations = trace[a].it
                  /\ PlainAssistantMessages = <<Message("assistant", text, "", <<>>)>>
                  /\ appended[Len(appended)] = Message("assistant", text, "", <<>>)
                  /\ Len(appended) = Cardinality(AppendEvents)

\* the second completion carried two choices, the first of them the text
\* "Done", after a first iteration that executed a tool
C14_Witness ==
    \E a \in TracePos :
        /\ trace[a] = Event("response", 2, 0, "text")
        /\ trace[a + 1] = Event("choice", 2, 2, "Done")
        /\ \E b \in 1..a : trace[b].ev = "Execute" /\ trace[b].it = 1
        /\ result.FinalAnswer = "Done"
        /\ result.Success

\* C15: when Choices[0] of a completion has no tool calls and no text and
\* its stop reason is "stop" or "end_turn", the run ends there as
\* succeeded with an empty FinalAnswer, Success true and no error; no
\* assistant message is appended for it
C15_EmptyCompletion ==
    \A a \in TracePos :
        (/\ trace[a].ev = "response"
         /\ trace[a].val \in {"empty stop", "empty end_turn"}) =>
            /\ Len(trace) = a + 1
            /\ trace[a + 1].ev = "choice" /\ trace[a + 1].val = ""
            /\ pc = "done"
            /\ result.Success = TRUE
            /\ result.FinalAnswer = ""
            /\ result.Error = "<nil>"
            /\ result.Iterations = trace[a].it
            /\ PlainAssistantMessages = <<>>
            /\ Len(appended) = Cardinality(AppendEvents)

\* the second completion was empty with stop reason "end_turn", after a
\* first iteration that executed a tool
C15_Witness ==
    \E a \in TracePos :
        /\ trace[a] = Event("response", 2, 0, "empty end_turn")
        /\ \E b \in 1..a : trace[b].ev = "Execute" /\ trace[b].it = 1
        /\ result.Success
        /\ result.FinalAnswer = ""
        /\ Len(result.ToolsUsed) = 1

\* the executeToolCall events and the tool-result appends of the trace, in order
DispatchEvents == SelectSeq(trace, LAMBDA x : x.ev = "executeToolCall")
ToolResultEvents == SelectSeq(trace, LAMBDA x : x.ev = "AddToolResult")

\* the run is over and no response ended it: it ran out of iterations
EndedByPolicy ==
    /\ pc = "done"
    /\ \A a \in TracePos :
          trace[a].ev = "response" =>
              trace[a].val \in {"tool calls", "empty length"}

\* C16: when the run ends because the iterations are used up, the Result
\* that Run returns carries the max-iteration error and still holds one
\* ToolExecution for every call dispatched during the run, in dispatch
\* order, and the number of iterations made
C16_PartialResults ==
    EndedByPolicy =>
        /\ result.Error =
              "max iterations (" \o FormatInt(config.MaxIterations) \o ") reached"
        /\ result.Success = FALSE
        /\ result.Iterations = ServiceCalls
        /\ Len(result.ToolsUsed) = Len(DispatchEvents)
        /\ Len(result.ToolsUsed) = Len(ToolResultEvents)
        /\ \A n \in 1..Len(result.ToolsUsed) :
              result.ToolsUsed[n].ToolName = DispatchEvents[n].val

\* a run of two iterations that ran out of iterations after executing bash
\* in the first and file_read in the second
C16_Witness ==
    /\ EndedByPolicy
    /\ result.Iterations = 2
    /\ Len(result.ToolsUsed) = 2
    /\ result.ToolsUsed[1].ToolName = "bash" /\ result.ToolsUsed[1].Output = "hi\n"
    /\ result.ToolsUsed[2].ToolName = "file_read"
    /\ DispatchEvents[1].it = 1 /\ DispatchEvents[2].it = 2

\* the run has returned as failed: a service failure, a response without
\* choices, or the iterations used up
RunFailed == pc = "done" /\ result.Success = FALSE

\* C17 as stated: every failed run (service failure, zero choices, max
\* iterations) is reported through the Result alone, Success false and
\* Result.Error set, and the error Run returns is nil
C17_ErrorOnlyInResult ==
    RunFailed => (result.Error # "<nil>" /\ err = "<nil>")

\* C17: the error Run returns is the Result's Error: the service's error
\* after a failed service call, "no response from LLM" after a response
\* without choices, the max-iteration error when the iterations are used
\* up, each with Success false; it is nil exactly for a run that succeeded
C17_ErrorReturn ==
    pc = "done" =>
        /\ err = result.Error
        /\ (err = "<nil>") <=> result.Success
        /\ \A a \in TracePos :
              /\ trace[a].ev = "serviceError" => err = trace[a].val
              /\ (trace[a].ev = "response" /\ trace[a].val = "no choices") =>
                    err = "no response from LLM"
        /\ EndedByPolicy =>
              err = "max iterations (" \o FormatInt(config.MaxIterations) \o ") reached"

\* a run that used up its one iteration on a tool call returned the
\* max-iteration error, which is also in the Result
C17_Witness ==
    /\ EndedByPolicy
    /\ err = "max iterations (1) reached"
    /\ result.Error = err
    /\ Len(result.ToolsUsed) >= 1

\* the responses received so far, in order
ResponseEventsSeen == SelectSeq(trace, LAMBDA x : x.ev = "response")

\* the scenario of C18: a new agent (default Context window, default tools)
\* with AutoApprove on; the first response is one bash call, whose
\* execution returns the result "hi\n"; the second response is the text
\* "Done"
EndToEndScenario ==
    /\ config.AutoApprove
    /\ MaxMessages = DefaultMaxMessages
    /\ registry = DefaultRegistry
    /\ ResponseEventsSeen = <<Event("response", 1, 1, "tool calls"),
                              Event("response", 2, 0, "text")>>
    /\ \E a \in TracePos : trace[a].ev = "choice" /\ trace[a].it = 2
                           /\ trace[a].val = "Done"
    /\ Len(DispatchEvents) = 1 /\ DispatchEvents[1].val = "bash"
    /\ returned = <<<<[Success |-> TRUE, Result |-> "hi\n", Error |-> ""], "<nil>">>>>

\* C18: in that scenario Run has ended with Success true, Iterations 2, one
\* ToolExecution, FinalAnswer "Done" and no error, and the Context holds
\* four messages: the user message, the assistant message with the bash
\* call, the tool result "hi\n" under that call's id, the assistant
\* message "Done"
C18_EndToEnd ==
    EndToEndScenario =>
        /\ pc = "done"
        /\ result.Success = TRUE
        /\ result.Iterations = 2
        /\ Len(result.ToolsUsed) = 1
        /\ result.ToolsUsed[1].ToolName = "bash"
        /\ result.ToolsUsed[1].Output = "hi\n"
        /\ result.FinalAnswer = "Done"
        /\ result.Error = "<nil>"
        /\ err = "<nil>"
        /\ Len(Messages) = 4
        /\ Messages[1] = [Role |-> "user", Content |-> trace[1].val,
                          ToolID |-> "", ToolCalls |-> <<>>]
        /\ Messages[2].Role = "assistant"
        /\ Len(Messages[2].ToolCalls) = 1
        /\ Messages[2].ToolCalls[1].Name = "bash"
        /\ Messages[3] = [Role |-> "tool", Content |-> "hi\n",
                          ToolID |-> Messages[2].ToolCalls[1].ID,
                          ToolCalls |-> <<>>]
        /\ Messages[4] = [Role |-> "assistant", Content |-> "Done",
                          ToolID |-> "", ToolCalls |-> <<>>]

\* the scenario has been run to its end, without a gate call on the way
C18_Witness ==
    /\ EndToEndScenario
    /\ pc = "done"
    /\ Len(Messages) = 4
    /\ \A a \in TracePos : trace[a].ev # "confirmFn"

\* the external calls of a run and, for each, the event of its return
CallEvents == {"GenerateContent", "confirmFn", "Execute"}

ReturnOf(ev) ==
    CASE ev = "GenerateContent" -> "response"
      [] ev = "confirmFn" -> "confirmReturn"
      [] ev = "Execute" -> "AddToolResult"

\* the calls that have been made and have not returned
InFlight ==
    {a \in TracePos :
        /\ trace[a].ev \in CallEvents
        /\ ~\E b \in (a + 1)..Len(trace) :
               /\ trace[b].ev = ReturnOf(trace[a].ev)
               /\ trace[b].it = trace[a].it
               /\ (trace[a].ev = "GenerateContent" \/ trace[b].k = trace[a].k)}

\* the tool calls of iteration it that have their result appended before
\* position a of the trace
ResultsBefore(a, it) ==
    Cardinality({b \in 1..(a - 1) : trace[b].ev = "AddToolResult" /\ trace[b].it = it})

\* C19: at most one service call, gate call or tool execution is in flight
\* at any time: a call that is in flight is the last thing the run did, and
\* nothing else is started until it has returned; and when a service call
\* is issued, every tool call of every earlier response of the run has been
\* dispatched and has its result
C19_NoParallelism ==
    /\ Cardinality(InFlight) <= 1
    /\ \A a \in InFlight : a = Len(trace)
    /\ (pc \in {"llm", "gate", "exec"}) <=> (InFlight # {})
    /\ \A a \in TracePos :
          trace[a].ev = "GenerateContent" =>
              \A b \in 1..(a - 1) :
                  trace[b].ev = "response" =>
                      ResultsBefore(a, trace[b].it) = trace[b].k

\* a tool execution is in flight for the second call of a response, after
\* the service call, the first call's gate call and its execution returned
C19_Witness ==
    /\ pc = "exec"
    /\ InFlight = {Len(trace)}
    /\ trace[Len(trace)].ev = "Execute" /\ trace[Len(trace)].k = 2
    /\ \E a, b \in TracePos :
          /\ trace[a].ev = "confirmReturn" /\ trace[a].k = 1
          /\ trace[b].ev = "Execute" /\ trace[b].k = 1

\* the names under which Register has been called so far
RegisteredNames == {registered[j].Name : j \in DOMAIN registered}

\* the tool of the latest Register call under name n
LastRegistered(n) ==
    LET js == {j \in DOMAIN registered : registered[j].Name = n} IN
       registered[CHOOSE j \in js : \A h \in js : h <= j]

\* C20: after any sequence of Register calls, Get(n) returns, with no
\* error, the tool of the latest Register call under n, whatever was
\* registered under other names before or after it, and fails with
\* "unknown tool: n" exactly when no Register call was made under n; All and
\* Names return one entry for each registered name and no other: the latest
\* tool registered under it, respectively the name
C20_RegistryMap ==
    /\ observed.op = "Get" =>
          LET n == observed.arg[1]
              got == observed.val[1]
          IN  /\ (got.err # "<nil>") <=> (n \notin RegisteredNames)
              /\ n \in RegisteredNames => got.tool = LastRegistered(n)
              /\ n \notin RegisteredNames => got.err = "unknown tool: " \o n
    /\ observed.op = "All" =>
          /\ Len(observed.val) = Cardinality(RegisteredNames)
          /\ {observed.val[j] : j \in DOMAIN observed.val} =
                {LastRegistered(n) : n \in RegisteredNames}
    /\ observed.op = "Names" =>
          /\ Len(observed.val) = Cardinality(RegisteredNames)
          /\ {observed.val[j] : j \in DOMAIN observed.val} = RegisteredNames

\* bash was registered, then file_read, then another bash; Get("bash")
\* returned the second bash tool
C20_Witness ==
    /\ registered = <<Tool("bash", TRUE), Tool("file_read", FALSE), Tool("bash", FALSE)>>
    /\ observed.op = "Get"
    /\ observed.arg = <<"bash">>
    /\ observed.val[1].tool = Tool("bash", FALSE)

RECURSIVE MapAfter(_)
\* the map after the first j writes of the Register history
MapAfter(j) ==
    IF j = 0 THEN [n \in {} |-> <<>>]
    ELSE LET before == MapAfter(j - 1)
             tool == registered[j]
         IN  [n \in DOMAIN before \cup {tool.Name} |->
                 IF n = tool.Name THEN tool ELSE before[n]]

\* the goroutines inside a method body, holding the lock
WritersInside ==
    {c \in Callers : callers[c].op = "Register"
                     /\ callers[c].pc \in {"body", "write", "unlock"}}
ReadersInside ==
    {c \in Callers : callers[c].op \notin {"Register", "none"}
                     /\ callers[c].pc \in {"body", "unlock"}}

\* C21: with goroutines calling Register and the read methods of one
\* Registry concurrently, at most one writer is inside a method body and
\* then no reader is; so every read returns what the method returns on the
\* map as it was after some number of whole Register writes, never less
\* than the writes that were done when the read was called
C21_RegistryConcurrency ==
    /\ Cardinality(WritersInside) <= 1
    /\ WritersInside # {} => ReadersInside = {}
    /\ \A c \in Callers :
          (callers[c].pc = "unlock" /\ callers[c].op # "Register") =>
              /\ callers[c].val.ok
              /\ \E j \in callers[c].started..callers[c].seen :
                    callers[c].val.res \in
                        ReadResults(callers[c].op, callers[c].arg, MapAfter(j))

\* one goroutine's Get("bash") returned the tool of the second of two
\* Register calls under that name, the first of them written after the Get
\* was called, while the other goroutine waits for the lock to register again
C21_Witness ==
    \E c, w \in Callers :
        /\ callers[c].pc = "unlock" /\ callers[c].op = "Get"
        /\ callers[c].arg = <<"bash">>
        /\ registered = <<Tool("bash", TRUE), Tool("bash", FALSE)>>
        /\ callers[c].started < 2
        /\ callers[c].val.res[1].tool = Tool("bash", FALSE)
        /\ callers[w].pc = "lock" /\ callers[w].op = "Register"

\* the Context has been cleared (by Clear or by Reset)
Cleared == \E a \in TracePos : trace[a].ev \in {"Clear", "Reset"}

\* C22: a step that is a Clear or a Reset leaves no message in the Context
\* and leaves SystemPrompt and MaxMessages as they were; and the appends
\* made after it are retained as on a new Context: the last MaxMessages of
\* them at most
C22_ClearFrame ==
    /\ [][(/\ Len(trace') = Len(trace) + 1
           /\ trace'[Len(trace')].ev \in {"Clear", "Reset"}) =>
              (/\ Messages' = <<>>
               /\ SystemPrompt' = SystemPrompt
               /\ MaxMessages' = MaxMessages)]_vars
    /\ [](Cleared =>
              /\ Len(Messages) <= MaxMessages
              /\ Messages = SubSeq(appended,
                                   Len(appended) - Min(Len(appended), MaxMessages) + 1,
                                   Len(appended)))

\* a Context with a system prompt and a window of two that held two
\* messages was reset, and three appends later its window is full again
C22_Witness ==
    /\ trace = <<Event("Reset", 0, 0, "")>>
    /\ SystemPrompt = "You are a shell assistant."
    /\ MaxMessages = 2
    /\ Len(appended) = 3
    /\ Len(Messages) = 2

\* C23: what ToLangchainMessages returned: the system prompt first exactly
\* when it is not empty, then one element for each retained message, in
\* order: a human text for a user message, an ai text for a plain assistant
\* message, for an assistant message with tool calls one ai element with its
\* text, if not empty, and then its tool calls in order, and for a tool
\* message one tool response under the message's ToolID; the call left the
\* Context as it was
C23_Render ==
    /\ [](observed.op = "ToLangchainMessages" =>
          LET out == observed.val
              off == IF SystemPrompt # "" THEN 1 ELSE 0
              text(t) == [Kind |-> "text", Text |-> t,
                          ToolCall |-> [ID |-> "", Name |-> "", Arguments |-> ""],
                          ToolCallID |-> ""]
          IN  /\ Len(out) = Len(Messages) + off
              /\ SystemPrompt # "" =>
                    out[1] = [Role |-> "system", Parts |-> <<text(SystemPrompt)>>]
              /\ \A j \in 1..Len(out) : out[j].Role = "system" => (j = 1 /\ off = 1)
              /\ \A j \in 1..Len(Messages) :
                    LET m == Messages[j]
                        r == out[j + off]
                        n == Len(m.ToolCalls)
                        t == IF m.Content # "" THEN 1 ELSE 0
                    IN  /\ m.Role = "user" =>
                              r = [Role |-> "human", Parts |-> <<text(m.Content)>>]
                        /\ (m.Role = "assistant" /\ n = 0) =>
                              r = [Role |-> "ai", Parts |-> <<text(m.Content)>>]
                        /\ (m.Role = "assistant" /\ n > 0) =>
                              /\ r.Role = "ai"
                              /\ Len(r.Parts) = n + t
                              /\ t = 1 => r.Parts[1] = text(m.Content)
                              /\ \A h \in 1..n :
                                    /\ r.Parts[h + t].Kind = "tool_call"
                                    /\ r.Parts[h + t].ToolCall = m.ToolCalls[h]
                        /\ m.Role = "tool" =>
                              /\ r.Role = "tool"
                              /\ Len(r.Parts) = 1
                              /\ r.Parts[1].Kind = "tool_response"
                              /\ r.Parts[1].ToolCallID = m.ToolID
                              /\ r.Parts[1].Text = m.Content)
    /\ [][(observed'.op = "ToLangchainMessages" /\ observed.op # "ToLangchainMessages")
             => UNCHANGED <<SystemPrompt, Messages, MaxMessages>>]_vars

\* a Context with a system prompt was rendered while it held a user
\* message, an assistant message with text and two tool calls, and a tool
\* result
C23_Witness ==
    /\ observed.op = "ToLangchainMessages"
    /\ SystemPrompt # ""
    /\ Len(Messages) = 3
    /\ Messages[1].Role = "user"
    /\ Messages[2].Content = "Done" /\ Len(Messages[2].ToolCalls) = 2
    /\ Messages[3].Role = "tool"
    /\ Len(observed.val) = 4
    /\ Len(observed.val[3].Parts) = 3

\* ---------------------------------------------------------------- BashTool
\* specification: one BashTool.Execute call, its subprocess and contexts
\*
\* The bytes a subprocess writes can be longer than the output cap, so a Go
\* string handled by the bash tool is modelled run-length encoded: a sequence
\* of pieces [ch, n], n copies of the character ch, no two neighbours with
\* the same ch.  len() and slicing in Go count bytes: Width is the number of
\* bytes of the UTF-8 encoding of a character.

\* a two-byte character (U+00E9) and the first byte of its encoding
EAcute == "\\u00e9"
EAcuteLead == "\\xC3"

\* bytes in the UTF-8 encoding of ch
Width(ch) == IF ch = EAcute THEN 2 ELSE 1

\* the first byte of the encoding of ch, as a (broken) character of its own
LeadByte(ch) == IF ch = EAcute THEN EAcuteLead ELSE ch

\* ch is a complete character, not a byte cut out of one
IsWhole(ch) == ch # EAcuteLead

Rep(ch, n) == IF n = 0 THEN <<>> ELSE <<[ch |-> ch, n |-> n]>>

\* a + b
Cat(a, b) ==
    IF a = <<>> THEN b
    ELSE IF b = <<>> THEN a
    ELSE IF a[Len(a)].ch = b[1].ch /\ IsWhole(b[1].ch)
         THEN SubSeq(a, 1, Len(a) - 1)
              \o <<[ch |-> b[1].ch, n |-> a[Len(a)].n + b[1].n]>>
              \o Tail(b)
         ELSE a \o b

\* pieces in order, neighbours with the same character merged
RECURSIVE Merged(_)
Merged(pieces) ==
    IF Len(pieces) < 2 THEN pieces
    ELSE IF pieces[1].ch = pieces[2].ch /\ IsWhole(pieces[1].ch)
         THEN Merged(<<[ch |-> pieces[1].ch, n |-> pieces[1].n + pieces[2].n]>>
                     \o SubSeq(pieces, 3, Len(pieces)))
         ELSE <<pieces[1]>> \o Merged(Tail(pieces))

\* the string with the characters chars, in order
Str(chars) == Merged([j \in 1..Len(chars) |-> [ch |-> chars[j], n |-> 1]])

\* len(s): bytes
RECURSIVE ByteLen(_)
ByteLen(s) ==
    IF s = <<>> THEN 0
    ELSE Head(s).n * Width(Head(s).ch) + ByteLen(Tail(s))

\* utf8.RuneCountInString(s): characters, a broken byte counting as one
RECURSIVE RuneCount(_)
RuneCount(s) ==
    IF s = <<>> THEN 0 ELSE Head(s).n + RuneCount(Tail(s))

\* s[:b], b <= len(s): the first b bytes, which may end inside a character
RECURSIVE Slice(_, _)
Slice(s, b) ==
    IF s = <<>> \/ b = 0 THEN <<>>
    ELSE IF Head(s).n * Width(Head(s).ch) <= b
         THEN <<Head(s)>> \o Slice(Tail(s), b - Head(s).n * Width(Head(s).ch))
         ELSE Rep(Head(s).ch, b \div Width(Head(s).ch))
              \o (IF b % Width(Head(s).ch) = 0 THEN <<>>
                  ELSE Rep(LeadByte(Head(s).ch), 1))

\* the first c characters of s
RECURSIVE RunePrefix(_, _)
RunePrefix(s, c) ==
    IF s = <<>> \/ c = 0 THEN <<>>
    ELSE IF Head(s).n <= c
         THEN <<Head(s)>> \o RunePrefix(Tail(s), c - Head(s).n)
         ELSE Rep(Head(s).ch, c)

\* n copies of the one-character string ch
RECURSIVE Repeat(_, _)
Repeat(ch, n) == IF n = 0 THEN "" ELSE ch \o Repeat(ch, n - 1)

\* the text of s as a string of the agent's model (exact for ASCII)
RECURSIVE Text(_)
Text(s) ==
    IF s = <<>> THEN "" ELSE Repeat(Head(s).ch, Head(s).n) \o Text(Tail(s))

\* bash.go constants: the default timeout in seconds, the output cap in bytes
defaultTimeout == 30
maxOutputLen == 10000

\* fmt.Sprintf("%v", d) for a Duration of whole seconds below one minute
FormatDuration(seconds) == FormatInt(seconds) \o "s"

TimedOutError(timeout) == "command timed out after " \o FormatDuration(timeout)

Canceled == "context canceled"
DeadlineExceeded == "context deadline exceeded"

\* the Arguments strings handed to the bash tool
BashRaws == {"{\"command\":\"echo hi\"}", "{\"command\":\"sudo rm -rf /\"}",
             "ls -la", "{\"command\":\"\"}"}

\* json.Unmarshal of raw into a BashInput: ok is FALSE when raw is not JSON
UnmarshalBashInput(raw) ==
    CASE raw = "{\"command\":\"echo hi\"}" -> [ok |-> TRUE, Command |-> "echo hi"]
      [] raw = "{\"command\":\"sudo rm -rf /\"}" -> [ok |-> TRUE, Command |-> "sudo rm -rf /"]
      [] raw = "{\"command\":\"\"}" -> [ok |-> TRUE, Command |-> ""]
      [] OTHER -> [ok |-> FALSE, Command |-> ""]

\* bashInput.Command after the parse and its fallback to the raw input
BashCommand(raw) ==
    IF UnmarshalBashInput(raw).ok THEN UnmarshalBashInput(raw).Command ELSE raw

\* the commands above that match one of dangerousPatterns (\bsudo\s+rm)
DangerousCommands == {"sudo rm -rf /"}

DangerWarning ==
    "Warning: This command matches a dangerous pattern. Please review carefully."

checkDangerousCommand(command) ==
    IF command \in DangerousCommands THEN DangerWarning ELSE ""

NewOutput(res) == Output(TRUE, res, "")
NewErrorOutput(e) == Output(FALSE, <<>>, e)
NewErrorOutputString(msg) == Output(FALSE, <<>>, msg)

StderrMarker == Str(<<"[", "s", "t", "d", "e", "r", "r", "]", "\n">>)
TruncationMarker ==
    Str(<<"\n", ".", ".", ".", " ", "(", "o", "u", "t", "p", "u", "t", " ",
          "t", "r", "u", "n", "c", "a", "t", "e", "d", ")">>)
NoOutputMarker ==
    Str(<<"(", "c", "o", "m", "m", "a", "n", "d", " ", "c", "o", "m", "p", "l",
          "e", "t", "e", "d", " ", "w", "i", "t", "h", " ", "n", "o", " ",
          "o", "u", "t", "p", "u", "t", ")">>)

\* result as built from the two buffers: stdout, then stderr under its marker
CombinedResult(stdout, stderr) ==
    IF stderr # <<>>
    THEN Cat(Cat(IF stdout # <<>> THEN Cat(stdout, Str(<<"\n">>)) ELSE stdout,
                 StderrMarker),
             stderr)
    ELSE stdout

\* a cap that cuts to maxOutputLen including the marker
CapOutput_markerInside(res) ==
    IF ByteLen(res) > maxOutputLen
    THEN Cat(Slice(res, maxOutputLen - ByteLen(TruncationMarker)), TruncationMarker)
    ELSE res

\* a cap that cuts at maxOutputLen but already when the cap is reached
CapOutput_atCap(res) ==
    IF ByteLen(res) >= maxOutputLen
    THEN Cat(Slice(res, maxOutputLen), TruncationMarker)
    ELSE res

\* if len(result) > maxOutputLen { result = result[:maxOutputLen] + marker }
CapOutput(res) ==
    IF ByteLen(res) > maxOutputLen
    THEN Cat(Slice(res, maxOutputLen), TruncationMarker)
    ELSE res

\* a return that reports an empty success as it is
BashOutput_emptySuccess(ctxErr, timeout, stdout, stderr, runErr) ==
    IF ctxErr = DeadlineExceeded
    THEN NewErrorOutputString(TimedOutError(timeout))
    ELSE LET res == CapOutput(CombinedResult(stdout, stderr))
         IN IF runErr # Nil
            THEN IF res = <<>> THEN NewErrorOutput(runErr)
                 ELSE Output(FALSE, res, runErr)
            ELSE NewOutput(res)

\* a return that never reports a timeout: the process error is returned
BashOutput_processError(ctxErr, timeout, stdout, stderr, runErr) ==
    LET res == CapOutput(CombinedResult(stdout, stderr))
    IN IF runErr # Nil
       THEN IF res = <<>> THEN NewErrorOutput(runErr)
            ELSE Output(FALSE, res, runErr)
       ELSE IF res = <<>> THEN NewOutput(NoOutputMarker)
       ELSE NewOutput(res)

\* Execute from the timeout check to its return: ctxErr is execCtx.Err(),
\* runErr the error of cmd.Run(), stdout and stderr the captured buffers
BashOutput(ctxErr, timeout, stdout, stderr, runErr) ==
    IF ctxErr = DeadlineExceeded
    THEN NewErrorOutputString(TimedOutError(timeout))
    ELSE LET res == CapOutput(CombinedResult(stdout, stderr))
         IN IF runErr # Nil
            THEN IF res = <<>> THEN NewErrorOutput(runErr)
                 ELSE Output(FALSE, res, runErr)
            ELSE IF res = <<>> THEN NewOutput(NoOutputMarker)
            ELSE NewOutput(res)


\* a derived context that is not ended by its parent
WithTimeout_detached(parentErr) == [err |-> Nil, parent |-> FALSE, timer |-> TRUE]

\* a derived context without a deadline of its own (context.WithCancel)
WithTimeout_noTimer(parentErr) == [err |-> parentErr, parent |-> TRUE, timer |-> FALSE]

\* context.WithTimeout(ctx, t.Timeout): done as soon as its parent is done
\* or its own timer fires, whichever comes first; Err() keeps the first cause
WithTimeout(parentErr) == [err |-> parentErr, parent |-> TRUE, timer |-> TRUE]

\* what a subprocess may have written when it exits or is killed
BashStdouts ==
    {<<>>, Str(<<"h", "i", "\n">>), Rep("a", 9990), Rep("a", maxOutputLen),
     Rep("a", maxOutputLen + 1), Rep(EAcute, 5000),
     Cat(Rep("a", 1), Rep(EAcute, 5000))}
BashStderrs == {<<>>, Str(<<"e", "r", "r", "\n">>)}
PartialStdouts == {<<>>, Str(<<"h", "i", "\n">>)}
ExitErrors == {Nil, "exit status 1"}
Killed == "signal: killed"
CtxErrors == {Canceled, DeadlineExceeded}

\* the subprocess of c killed by its context after writing out and errOut;
\* cmd.Run returns at once
KilledCmd(c, out, errOut) ==
    [c EXCEPT !.state = "exited", !.stdout = out, !.stderr = errOut, !.err = Killed]

InitBash ==
    /\ InitCtx
    /\ MaxMessages = DefaultMaxMessages
    /\ registry = DefaultRegistry
    /\ config = [AutoApprove |-> FALSE, MaxIterations |-> 0]
    /\ confirmFn = FALSE
    /\ pc = "idle"
    /\ i = 0
    /\ result = NewResult
    /\ err = Nil
    /\ toolCalls = <<>>
    /\ k = 0
    /\ execution = NewToolExecution([Name |-> "", Arguments |-> ""])
    /\ trace = <<>>
    /\ nToolCalls = 0
    /\ returned = <<>>
    /\ registered = <<>>
    /\ observed = NoObservation
    /\ gateArgs = <<>>
    /\ InitLock
    /\ InitTool

bashFrame == <<ctxVars, registry, config, confirmFn, pc, i, result, err, toolCalls,
               k, execution, nToolCalls, registered, observed, gateArgs, lockVars,
               fsCalls>>

\* Execute up to cmd.Run(): the command is parsed; an empty one is refused;
\* otherwise execCtx is derived and the subprocess started (a context that
\* is already done makes cmd.Run return its error without starting one)
BashExecute(raw) ==
    /\ cmd.state = "idle"
    /\ trace' = Append(trace, Event("Execute", 0, 0, raw))
    /\ IF BashCommand(raw) = ""
       THEN /\ returned' = Append(returned,
                                  <<NewErrorOutputString("command cannot be empty"), Nil>>)
            /\ cmd' = [cmd EXCEPT !.state = "returned"]
            /\ UNCHANGED execCtx
       ELSE /\ execCtx' = WithTimeout(callerCtx)
            /\ cmd' = IF WithTimeout(callerCtx).err # Nil
                      THEN [NoCmd EXCEPT !.state = "exited",
                                         !.command = BashCommand(raw),
                                         !.err = WithTimeout(callerCtx).err]
                      ELSE [NoCmd EXCEPT !.state = "running",
                                         !.command = BashCommand(raw)]
            /\ UNCHANGED returned
    /\ UNCHANGED <<bashFrame, callerCtx>>

\* the subprocess exits by itself, having written out and errOut
ProcessExits(out, errOut, exitErr) ==
    /\ cmd.state = "running"
    /\ cmd' = [cmd EXCEPT !.state = "exited", !.stdout = out, !.stderr = errOut,
                          !.err = exitErr]
    /\ trace' = Append(trace, Event("exit", 0, 0, exitErr))
    /\ UNCHANGED <<bashFrame, callerCtx, execCtx, returned>>

\* the timer of execCtx fires: the context is done with DeadlineExceeded and
\* a subprocess still running is killed
TimerFires(out, errOut) ==
    /\ cmd.state \in {"running", "exited"}
    /\ execCtx.timer
    /\ execCtx.err = Nil
    /\ execCtx' = [execCtx EXCEPT !.err = DeadlineExceeded]
    /\ cmd' = IF cmd.state = "running" THEN KilledCmd(cmd, out, errOut) ELSE cmd
    /\ trace' = Append(trace, Event("timeout", 0, 0, cmd.state))
    /\ UNCHANGED <<bashFrame, callerCtx, returned>>

\* the caller's context is done (cancelled, or its own deadline passed): a
\* live execCtx derived from it is done with the same error, and a
\* subprocess running under it is killed
CallerCancels(reason, out, errOut) ==
    /\ cmd.state \in {"idle", "running", "exited"}
    /\ callerCtx = Nil
    /\ callerCtx' = reason
    /\ LET ended == execCtx.parent /\ execCtx.err = Nil
       IN /\ execCtx' = IF ended THEN [execCtx EXCEPT !.err = reason] ELSE execCtx
          /\ cmd' = IF ended /\ cmd.state = "running"
                    THEN KilledCmd(cmd, out, errOut)
                    ELSE cmd
    /\ trace' = Append(trace, Event("cancel", 0, 0, cmd.state))
    /\ UNCHANGED <<bashFrame, returned>>

\* Execute after cmd.Run() returned: the timeout check, the result, the
\* return; the deferred cancel() releases the timer
BashReturns ==
    /\ cmd.state = "exited"
    /\ returned' = Append(returned,
                          <<BashOutput(execCtx.err, defaultTimeout, cmd.stdout,
                                       cmd.stderr, cmd.err), Nil>>)
    /\ cmd' = [cmd EXCEPT !.state = "returned"]
    /\ execCtx' = [execCtx EXCEPT !.timer = FALSE]
    /\ trace' = Append(trace, Event("return", 0, 0, execCtx.err))
    /\ UNCHANGED <<bashFrame, callerCtx>>

NextBash ==
    \/ \E raw \in BashRaws : BashExecute(raw)
    \/ \E out \in BashStdouts, errOut \in BashStderrs, e \in ExitErrors :
          ProcessExits(out, errOut, e)
    \/ \E out \in PartialStdouts, errOut \in BashStderrs : TimerFires(out, errOut)
    \/ \E reason \in CtxErrors, out \in PartialStdouts, errOut \in BashStderrs :
          CallerCancels(reason, out, errOut)
    \/ BashReturns

SpecBash == InitBash /\ [][NextBash]_vars

\* the runtime's timer of a live execCtx fires in the end
FairSpecBash ==
    /\ SpecBash
    /\ WF_vars(\E out \in PartialStdouts, errOut \in BashStderrs : TimerFires(out, errOut))


\* ---------------------------------------------------------------- claims: bash tool
\* the Output of the Execute call that has returned
LastOutput == returned[Len(returned)][1]

\* the timer of the tool's own deadline has fired (while = the state of the
\* subprocess at that moment)
TimerFired(while) ==
    \E a \in 1..Len(trace) : trace[a].ev = "timeout" /\ trace[a].val \in while

\* C25: when the subprocess is still running as the tool's timeout (30s)
\* elapses, Execute returns a failed Output whose error is the 'timed out'
\* message and not the process error; and the 'timed out' message is
\* returned only when the tool's own deadline was exceeded.
C25_BashTimeout ==
    cmd.state = "returned" /\ cmd.command # "" =>
        /\ TimerFired({"running"}) =>
              LastOutput = Output(FALSE, <<>>, "command timed out after 30s")
        /\ LastOutput.Error = "command timed out after 30s" =>
              TimerFired({"running", "exited"})

\* the first half of C25 alone
C25_TimeoutWhileRunning ==
    cmd.state = "returned" /\ TimerFired({"running"}) =>
        /\ LastOutput = Output(FALSE, <<>>, "command timed out after 30s")
        /\ cmd.err = Killed


ExpectedCombined ==
    IF cmd.stderr = <<>> THEN cmd.stdout
    ELSE IF cmd.stdout = <<>> THEN Cat(Str(<<"[", "s", "t", "d", "e", "r", "r", "]", "\n">>),
                                       cmd.stderr)
    ELSE Cat(cmd.stdout,
             Cat(Str(<<"\n", "[", "s", "t", "d", "e", "r", "r", "]", "\n">>), cmd.stderr))

\* an Execute call has returned what its subprocess wrote: it ran a
\* command, did not end on the timeout check, and there was some output
ReturnedCombined ==
    /\ cmd.state = "returned"
    /\ cmd.command # ""
    /\ execCtx.err # DeadlineExceeded
    /\ ExpectedCombined # <<>>

C30_NoEmptySuccess ==
    cmd.state = "returned" /\ LastOutput.Success =>
        /\ LastOutput.Result # <<>>
        /\ ByteLen(LastOutput.Result) > 0
        /\ LastOutput.Error = ""
        /\ cmd.stdout = <<>> /\ cmd.stderr = <<>> =>
              /\ LastOutput.Result = NoOutputMarker
              /\ Text(LastOutput.Result) = "(command completed with no output)"

\* a command exits with status 0 having written nothing
C30_Witness ==
    /\ cmd.state = "returned"
    /\ cmd.command = "echo hi"
    /\ cmd.err = Nil
    /\ cmd.stdout = <<>>
    /\ cmd.stderr = <<>>
    /\ execCtx.err = Nil
    /\ LastOutput = Output(TRUE, NoOutputMarker, "")


\* ---------------------------------------------------------------- file tools
\* A path is modelled by what filepath reads of it: whether it is absolute
\* and its segments between separators.  The empty string has no segments.
Path(abs, segs) == [abs |-> abs, segs |-> segs]
EmptyPath == Path(FALSE, <<>>)

\* the Path strings of the explored inputs, as filepath sees them
ParsePath(str) ==
    CASE str = "../../etc/passwd" -> Path(FALSE, <<"..", "..", "etc", "passwd">>)
      [] str = "notes.txt" -> Path(FALSE, <<"notes.txt">>)
      [] str = "out.txt" -> Path(FALSE, <<"out.txt">>)
      [] str = "/etc/hosts" -> Path(TRUE, <<"etc", "hosts">>)
      [] OTHER -> EmptyPath

\* the process's working directory, /home/user
Getwd == Path(TRUE, <<"home", "user">>)

IsAbs(p) == p.abs

\* filepath.Clean on the segments: "." is dropped, ".." removes the segment
\* before it, is dropped at the root and is kept at the start of a relative path
RECURSIVE CleanSegs(_, _, _)
CleanSegs(done, todo, abs) ==
    IF todo = <<>> THEN done
    ELSE IF Head(todo) = "." THEN CleanSegs(done, Tail(todo), abs)
    ELSE IF Head(todo) = ".."
         THEN IF done # <<>> /\ done[Len(done)] # ".."
              THEN CleanSegs(SubSeq(done, 1, Len(done) - 1), Tail(todo), abs)
              ELSE IF abs THEN CleanSegs(done, Tail(todo), abs)
              ELSE CleanSegs(Append(done, ".."), Tail(todo), abs)
    ELSE CleanSegs(Append(done, Head(todo)), Tail(todo), abs)

Clean(p) == Path(p.abs, CleanSegs(<<>>, p.segs, p.abs))

\* filepath.Join(dir, p), dir non-empty: the two joined by a separator, cleaned
Join(dir, p) == Clean(Path(dir.abs, dir.segs \o p.segs))

\* filepath.Abs(p) when os.Getwd succeeds
Abs(p) == IF IsAbs(p) THEN Clean(p) ELSE Join(Getwd, p)

\* filepath.Dir(p)
Dir(p) == Clean(Path(p.abs, IF p.segs = <<>> THEN <<>>
                            ELSE SubSeq(p.segs, 1, Len(p.segs) - 1)))

\* strings.Contains(path, ".."): no segment of the explored paths other
\* than ".." itself holds two dots in a row
ContainsDotDot(p) == \E j \in 1..Len(p.segs) : p.segs[j] = ".."

\* strings.HasPrefix(path, "..")
HasPrefixDotDot(p) == ~p.abs /\ p.segs # <<>> /\ p.segs[1] = ".."

\* "Resolve path": a relative path is joined to the working directory of
\* the input or, without one, made absolute (and left as it is when
\* os.Getwd fails)
ResolvePath(p, workingDir, getwdOk) ==
    IF ~IsAbs(p)
    THEN IF workingDir # EmptyPath THEN Join(workingDir, p)
         ELSE IF getwdOk THEN Abs(p) ELSE p
    ELSE p

\* "Security check": the resolved path is refused
TraversalRefused(p) == ContainsDotDot(p) /\ HasPrefixDotDot(Clean(p))

TraversalError == "path traversal not allowed"

\* a filesystem call as logged in fsCalls, with what the filesystem answered
FsCall(op, p, res) == [op |-> op, path |-> p, res |-> res]


\* file_read constant: the largest file read, in bytes
maxFileSize == 102400

\* the size check of file_read, as a mutant: a file of exactly maxFileSize
\* bytes is refused too
TooLarge_inclusive(size) == size >= maxFileSize

\* "Check file size": info.Size() > maxFileSize
TooLarge(size) == size > maxFileSize

\* the error of a file refused for its size
TooLargeError(size) ==
    "file too large (" \o FormatInt(size) \o " bytes, max " \o FormatInt(maxFileSize)
                       \o " bytes)"

\* the Arguments strings handed to file_read and to file_write
FileReadRaws == {"{\"path\":\"../../etc/passwd\"}", "{\"path\":\"notes.txt\"}",
                 "{\"path\":\"/etc/hosts\"}", "{\"path\":\"\"}",
                 "../../etc/passwd", " notes.txt"}
FileWriteRaws == {"{\"path\":\"../../etc/passwd\",\"content\":\"x\"}",
                  "{\"path\":\"out.txt\",\"content\":\"x\"}",
                  "{\"path\":\"out.txt\",\"content\":\"x\",\"append\":true}",
                  "{\"path\":\"\",\"content\":\"x\"}",
                  "out.txt"}

\* json.Unmarshal of raw into a FileReadInput
UnmarshalFileReadInput(raw) ==
    CASE raw = "{\"path\":\"../../etc/passwd\"}" -> [ok |-> TRUE, Path |-> "../../etc/passwd"]
      [] raw = "{\"path\":\"notes.txt\"}" -> [ok |-> TRUE, Path |-> "notes.txt"]
      [] raw = "{\"path\":\"/etc/hosts\"}" -> [ok |-> TRUE, Path |-> "/etc/hosts"]
      [] raw = "{\"path\":\"\"}" -> [ok |-> TRUE, Path |-> ""]
      [] OTHER -> [ok |-> FALSE, Path |-> ""]

\* json.Unmarshal of raw into a FileWriteInput
UnmarshalFileWriteInput(raw) ==
    CASE raw = "{\"path\":\"../../etc/passwd\",\"content\":\"x\"}" ->
            [ok |-> TRUE, Path |-> "../../etc/passwd", Content |-> "x", Append |-> FALSE,
             err |-> Nil]
      [] raw = "{\"path\":\"out.txt\",\"content\":\"x\"}" ->
            [ok |-> TRUE, Path |-> "out.txt", Content |-> "x", Append |-> FALSE, err |-> Nil]
      [] raw = "{\"path\":\"out.txt\",\"content\":\"x\",\"append\":true}" ->
            [ok |-> TRUE, Path |-> "out.txt", Content |-> "x", Append |-> TRUE, err |-> Nil]
      [] raw = "{\"path\":\"\",\"content\":\"x\"}" ->
            [ok |-> TRUE, Path |-> "", Content |-> "x", Append |-> FALSE, err |-> Nil]
      [] OTHER ->
            [ok |-> FALSE, Path |-> "", Content |-> "", Append |-> FALSE,
             err |-> "invalid character 'o' looking for beginning of value"]

\* strings.TrimSpace on the explored raw inputs
TrimSpace(str) == IF str = " notes.txt" THEN "notes.txt" ELSE str

\* what the filesystem answers: os.Stat (kind, size, err), os.ReadFile,
\* os.MkdirAll, os.OpenFile and the write
StatOutcomes ==
    {[kind |-> "notexist", size |-> 0, err |-> "no such file or directory"],
     [kind |-> "error", size |-> 0, err |-> "permission denied"],
     [kind |-> "dir", size |-> 4096, err |-> Nil]}
    \cup {[kind |-> "file", size |-> n, err |-> Nil] :
             n \in {20, 99 * 1024, maxFileSize, maxFileSize + 1, 101 * 1024}}
FsErrors == {Nil, "permission denied"}
FileContents == {"127.0.0.1 localhost\n"}
FsOutcomes ==
    [getwdOk : BOOLEAN, stat : StatOutcomes, read : FsErrors, mkdir : FsErrors,
     open : FsErrors, write : FsErrors]

\* FileReadTool.Execute: the Output it returns and the filesystem calls it
\* makes, in order (the explored contents have fewer than maxLineCount lines)
FileRead(raw, workingDir, fs) ==
    LET parsed == UnmarshalFileReadInput(raw)
        pathStr == IF parsed.ok THEN parsed.Path ELSE TrimSpace(raw)
        p == ResolvePath(ParsePath(pathStr), workingDir, fs.getwdOk)
        stat == <<FsCall("Stat", p, fs.stat)>>
    IN IF pathStr = "" THEN
          [out |-> Output(FALSE, "", "path cannot be empty"), calls |-> <<>>]
       ELSE IF TraversalRefused(p) THEN
          [out |-> Output(FALSE, "", TraversalError), calls |-> <<>>]
       ELSE IF fs.stat.kind = "notexist" THEN
          [out |-> Output(FALSE, "", "file not found: " \o pathStr), calls |-> stat]
       ELSE IF fs.stat.err # Nil THEN
          [out |-> Output(FALSE, "", fs.stat.err), calls |-> stat]
       ELSE IF fs.stat.kind = "dir" THEN
          [out |-> Output(FALSE, "", pathStr \o " is a directory, not a file"),
           calls |-> stat]
       ELSE IF TooLarge(fs.stat.size) THEN
          [out |-> Output(FALSE, "", TooLargeError(fs.stat.size)), calls |-> stat]
       ELSE IF fs.read # Nil THEN
          [out |-> Output(FALSE, "", fs.read), calls |-> Append(stat, FsCall("ReadFile", p, fs.read))]
       ELSE
          [out |-> Output(TRUE, CHOOSE c \in FileContents : TRUE, ""),
           calls |-> Append(stat, FsCall("ReadFile", p, fs.read))]

\* FileWriteTool.Execute: the Output it returns and the filesystem calls it
\* makes, in order
FileWrite(raw, workingDir, fs) ==
    LET in == UnmarshalFileWriteInput(raw)
        p == ResolvePath(ParsePath(in.Path), workingDir, fs.getwdOk)
        mkdir == <<FsCall("MkdirAll", Dir(p), fs.mkdir)>>
        stat == Append(mkdir, FsCall("Stat", p, fs.stat))
        existed == fs.stat.err = Nil
        action == IF existed THEN (IF in.Append THEN "appended to" ELSE "overwrote")
                  ELSE "created"
        done == Output(TRUE, "Successfully " \o action \o " file: " \o in.Path \o " ("
                             \o FormatInt(Len(in.Content)) \o " bytes)", "")
    IN IF ~in.ok THEN
          [out |-> Output(FALSE, "", "invalid input: " \o in.err), calls |-> <<>>]
       ELSE IF in.Path = "" THEN
          [out |-> Output(FALSE, "", "path cannot be empty"), calls |-> <<>>]
       ELSE IF TraversalRefused(p) THEN
          [out |-> Output(FALSE, "", TraversalError), calls |-> <<>>]
       ELSE IF fs.mkdir # Nil THEN
          [out |-> Output(FALSE, "", "failed to create directory: " \o fs.mkdir),
           calls |-> mkdir]
       ELSE IF in.Append THEN
          IF fs.open # Nil THEN
             [out |-> Output(FALSE, "", fs.open), calls |-> Append(stat, FsCall("OpenFile", p, fs.open))]
          ELSE IF fs.write # Nil THEN
             [out |-> Output(FALSE, "", fs.write),
              calls |-> stat \o <<FsCall("OpenFile", p, fs.open), FsCall("WriteString", p, fs.write)>>]
          ELSE
             [out |-> done,
              calls |-> stat \o <<FsCall("OpenFile", p, fs.open), FsCall("WriteString", p, fs.write)>>]
       ELSE IF fs.write # Nil THEN
          [out |-> Output(FALSE, "", fs.write), calls |-> Append(stat, FsCall("WriteFile", p, fs.write))]
       ELSE
          [out |-> done, calls |-> Append(stat, FsCall("WriteFile", p, fs.write))]


\* ---------------------------------------------------------------- one tool call
\* specification: a Run whose first response asks for one call of bash,
\* file_read or file_write, executed by the tool's own code

\* the service's responses: first one tool call, then a final text
CallInputs ==
    {<<"bash", raw>> : raw \in BashRaws}
    \cup {<<"file_read", raw>> : raw \in FileReadRaws}
    \cup {<<"file_write", raw>> : raw \in FileWriteRaws}

CallResponses(asked) ==
    IF asked = 0
    THEN {<<<<[Content |-> "",
               ToolCalls |-> <<[ID |-> "c1", Name |-> c[1], Arguments |-> c[2]]>>,
               StopReason |-> "tool_calls"]>>, Nil>> : c \in CallInputs}
    ELSE {<<<<[Content |-> "Done", ToolCalls |-> <<>>, StopReason |-> "stop"]>>, Nil>>}

\* tools.Input as built by executeToolCall: Raw is set, WorkingDir is not
InputWorkingDir == EmptyPath

InitCall ==
    /\ InitCtx
    /\ MaxMessages = DefaultMaxMessages
    /\ registry = DefaultRegistry
    /\ config \in [AutoApprove : BOOLEAN, MaxIterations : {1, 2}]
    /\ confirmFn \in BOOLEAN
    /\ pc = "idle"
    /\ i = 0
    /\ result = NewResult
    /\ err = Nil
    /\ toolCalls = <<>>
    /\ k = 0
    /\ execution = NewToolExecution([Name |-> "", Arguments |-> ""])
    /\ trace = <<>>
    /\ nToolCalls = 0
    /\ returned = <<>>
    /\ registered = <<>>
    /\ observed = NoObservation
    /\ gateArgs = <<>>
    /\ InitLock
    /\ InitTool

\* executeToolCall calls Execute of the bash tool
CallBash ==
    /\ pc = "exec"
    /\ execution.ToolName = "bash"
    /\ BashExecute(execution.Input)

\* a returned tools.Output with its Result as a string of the agent's model
TextOutput(out) == [out EXCEPT !.Result = Text(@)]

\* executeToolCall after Execute of the bash tool returned
BashReturned ==
    /\ pc = "exec"
    /\ cmd.state = "returned"
    /\ cmd' = [cmd EXCEPT !.state = "done"]
    /\ trace' = Append(trace, Event("AddToolResult", i + 1, k, toolCalls[k].ID))
    /\ LET ret == returned[Len(returned)]
       IN IF ret[2] # Nil
          THEN RecordExecution([execution EXCEPT !.Error = ret[2]])
          ELSE RecordExecution([execution EXCEPT
                                   !.Output = ExecutionOutput(TextOutput(ret[1]))])
    /\ UNCHANGED <<returned, fsCalls, callerCtx, execCtx>>

\* executeToolCall calls Execute of file_read and records what it returns
ExecuteFileRead(fs) ==
    /\ pc = "exec"
    /\ execution.ToolName = "file_read"
    /\ LET r == FileRead(execution.Input, InputWorkingDir, fs)
       IN /\ fsCalls' = fsCalls \o r.calls
          /\ returned' = Append(returned, <<r.out, Nil>>)
          /\ RecordExecution([execution EXCEPT !.Output = ExecutionOutput(r.out)])
    /\ trace' = trace \o <<Event("Execute", i + 1, k, execution.Input),
                           Event("AddToolResult", i + 1, k, toolCalls[k].ID)>>
    /\ UNCHANGED <<callerCtx, execCtx, cmd>>

\* executeToolCall calls Execute of file_write and records what it returns
ExecuteFileWrite(fs) ==
    /\ pc = "exec"
    /\ execution.ToolName = "file_write"
    /\ LET r == FileWrite(execution.Input, InputWorkingDir, fs)
       IN /\ fsCalls' = fsCalls \o r.calls
          /\ returned' = Append(returned, <<r.out, Nil>>)
          /\ RecordExecution([execution EXCEPT !.Output = ExecutionOutput(r.out)])
    /\ trace' = trace \o <<Event("Execute", i + 1, k, execution.Input),
                           Event("AddToolResult", i + 1, k, toolCalls[k].ID)>>
    /\ UNCHANGED <<callerCtx, execCtx, cmd>>

NextCall ==
    \/ \E p \in UserPrompts : Run(p)
    \/ CallService
    \/ MaxIterationsReached
    \/ \E r \in CallResponses(nToolCalls) : ServiceReturns(r[1], r[2])
    \/ Dispatch
    \/ \E g \in GateOutcomes : GateReturns(g[1], g[2])
    \/ CallBash
    \/ \E out \in PartialStdouts, errOut \in BashStderrs, e \in ExitErrors :
          ProcessExits(out, errOut, e)
    \/ \E out \in PartialStdouts, errOut \in BashStderrs : TimerFires(out, errOut)
    \/ BashReturns
    \/ BashReturned
    \/ \E fs \in FsOutcomes : ExecuteFileRead(fs)
    \/ \E fs \in FsOutcomes : ExecuteFileWrite(fs)

SpecCall == InitCall /\ [][NextCall]_vars


\* ---------------------------------------------------------------- claims: tool calls
\* the Path field of the input of the file tool call being executed
RequestedPath ==
    IF execution.ToolName = "file_read"
    THEN IF UnmarshalFileReadInput(execution.Input).ok
         THEN UnmarshalFileReadInput(execution.Input).Path
         ELSE TrimSpace(execution.Input)
    ELSE UnmarshalFileWriteInput(execution.Input).Path

\* a file tool call has been executed and recorded
FileCallDone ==
    /\ execution.ToolName \in {"file_read", "file_write"}
    /\ execution.Approved
    /\ Len(returned) = 1

\* p is relative and, cleaned, still starts with ".."
Escapes(p) == ~p.abs /\ p.segs # <<>> /\ Clean(p).segs # <<>> /\ Clean(p).segs[1] = ".."

\* C24: a file_read or file_write call whose path is relative and escapes
\* the working directory after cleaning (such as ../../etc/passwd) is
\* rejected with the path-traversal error before any filesystem access: no
\* stat, read, directory creation or write happens.
C24_TraversalGuard ==
    FileCallDone /\ Escapes(ParsePath(RequestedPath)) =>
        /\ returned[1][1] = Output(FALSE, "", "path traversal not allowed")
        /\ fsCalls = <<>>

\* the guard does reject the path when it reaches it unresolved, that is
\* when os.Getwd failed
C24_RejectedUnresolved ==
    FileCallDone /\ Escapes(ParsePath(RequestedPath))
                 /\ returned[1][1].Error = "path traversal not allowed" =>
        fsCalls = <<>>


\* the bash call being executed asks for a command matching a dangerous pattern
DangerousCall ==
    /\ execution.ToolName = "bash"
    /\ checkDangerousCommand(BashCommand(execution.Input)) # ""

\* C27: a bash command matching a dangerous pattern is still executed (the
\* match neither blocks nor alters the execution), and the warning is part
\* of the description passed to the Confirmation Gate for that call: a
\* description holding the warning is at least as long as the warning.
C27_DangerWarning ==
    /\ DangerousCall /\ execution.Approved /\ cmd.state = "done" =>
          cmd.command = BashCommand(execution.Input)
    /\ DangerousCall /\ pc = "gate" =>
          /\ gateArgs # <<>>
          /\ gateArgs[Len(gateArgs)].toolName = "bash"
          /\ gateArgs[Len(gateArgs)].command = execution.Input
          /\ Len(gateArgs[Len(gateArgs)].description) >= Len(DangerWarning)

\* the first half of C27 alone: once approved (or ungated), the dangerous
\* command is the one run, and what is recorded is what its run returned
C27_StillExecuted ==
    DangerousCall /\ execution.Approved /\ pc # "exec" =>
        /\ cmd.state = "done"
        /\ cmd.command = "sudo rm -rf /"
        /\ execution.Output =
              ExecutionOutput(TextOutput(BashOutput(execCtx.err, defaultTimeout, cmd.stdout,
                                                    cmd.stderr, cmd.err)))


\* the one tool call of the run was executed, failed and has been recorded
ToolFailed ==
    /\ Len(returned) = 1
    /\ Len(result.ToolsUsed) = 1
    /\ ~returned[1][1].Success

\* what the failed tool had produced: the captured stdout and stderr of a
\* bash subprocess; the file tools produce nothing before they fail
ProducedOutput ==
    IF result.ToolsUsed[1].ToolName = "bash"
    THEN Text(CombinedResult(cmd.stdout, cmd.stderr))
    ELSE ""

\* the execution keeps the produced output and the error text, and the
\* run goes on: it ends only by the next response or the iteration limit
KeptAndNonFatal ==
    /\ result.ToolsUsed[1].Output =
          IF ProducedOutput = "" THEN returned[1][1].Error
          ELSE ProducedOutput \o "\n" \o returned[1][1].Error
    /\ returned[1][1].Error # ""
    /\ pc \in {"loop", "llm", "done"}
    /\ pc = "done" =>
          \/ result.Success /\ result.Error = Nil /\ result.FinalAnswer = "Done"
          \/ result.Error = MaxIterationsError(config.MaxIterations)
    /\ pc # "done" => result.Error = Nil

\* C28: when an executed tool fails (timeout, filesystem failure, traversal
\* rejection, non-zero exit), the run continues, and the ToolExecution
\* records both any partial output the tool produced and the error text.
C28_NonFatalPartialOutput == ToolFailed => KeptAndNonFatal

\* C28 for every failure but the timeout
C28_ExceptTimeout == ToolFailed /\ execCtx.err # DeadlineExceeded => KeptAndNonFatal


\* ---------------------------------------------------------------- claims: read size cap
\* the file_read call of the run has been executed
FileReadDone ==
    /\ execution.ToolName = "file_read"
    /\ execution.Approved
    /\ Len(returned) = 1

\* what os.Stat answered to the file_read call, when it was asked
StatOf(calls) == calls[1].res

\* os.Stat found a regular file
RegularFile == fsCalls # <<>> /\ StatOf(fsCalls).kind = "file" /\ StatOf(fsCalls).err = Nil

\* the content was read: os.ReadFile was called
ContentRead == \E j \in 1..Len(fsCalls) : fsCalls[j].op = "ReadFile"

\* e is a size-cap error, for some size
IsSizeCapError(e) == \E n \in {st.size : st \in StatOutcomes} : e = TooLargeError(n)

\* C31: file_read fails with the size-cap error, without reading the
\* content, for every regular file larger than 102,400 bytes, and with no
\* size-cap error for a file of at most 102,400 bytes: a 101 KB file fails,
\* a 99 KB file (that the filesystem lets read) succeeds.
C31_ReadSizeCap ==
    FileReadDone /\ RegularFile =>
        LET size == StatOf(fsCalls).size
            out == returned[1][1]
        IN /\ size > 102400 =>
                /\ out = Output(FALSE, "", TooLargeError(size))
                /\ ~ContentRead
           /\ size <= 102400 =>
                /\ ~IsSizeCapError(out.Error)
                /\ ContentRead
           /\ size = 101 * 1024 =>
                out.Error = "file too large (103424 bytes, max 102400 bytes)"
           /\ size = 99 * 1024 /\ fsCalls[Len(fsCalls)].res = Nil => out.Success

\* a regular file of 101 KB was refused for its size, unread
C31_Witness ==
    /\ FileReadDone /\ RegularFile
    /\ StatOf(fsCalls).size = 101 * 1024
    /\ IsSizeCapError(returned[1][1].Error)
    /\ ~ContentRead


\* ---------------------------------------------------------------- cancelled run
\* specification: a Run whose first response asks for two tool calls, a
\* bash call and then a file tool call, under a caller context that can be
\* cancelled while the calls of the response are processed

\* the service's responses: two tool calls, then a final text; called with
\* a context that is done, GenerateContent returns the context's error
CancelResponses(asked, ctxErr) ==
    IF ctxErr # Nil THEN {<<<<>>, ctxErr>>}
    ELSE IF asked = 0
    THEN {<<<<[Content |-> "",
               ToolCalls |-> <<[ID |-> "c1", Name |-> "bash",
                                Arguments |-> "{\"command\":\"echo hi\"}"],
                               [ID |-> "c2", Name |-> c[1], Arguments |-> c[2]]>>,
               StopReason |-> "tool_calls"]>>, Nil>> :
             c \in {<<"file_write", "{\"path\":\"out.txt\",\"content\":\"x\"}">>,
                    <<"file_read", "{\"path\":\"notes.txt\"}">>}}
    ELSE {<<<<[Content |-> "Done", ToolCalls |-> <<>>, StopReason |-> "stop"]>>, Nil>>}

\* the ctx handed to Run is done while Run processes the tool calls of a response
CancelDuringTurn(reason, out, errOut) ==
    /\ pc \in {"dispatch", "gate", "exec"}
    /\ CallerCancels(reason, out, errOut)

NextCancel ==
    \/ \E p \in UserPrompts : Run(p)
    \/ CallService
    \/ MaxIterationsReached
    \/ \E r \in CancelResponses(nToolCalls, callerCtx) : ServiceReturns(r[1], r[2])
    \/ Dispatch
    \/ \E g \in GateOutcomes : GateReturns(g[1], g[2])
    \/ CallBash
    \/ \E out \in PartialStdouts, errOut \in BashStderrs, e \in ExitErrors :
          ProcessExits(out, errOut, e)
    \/ \E out \in PartialStdouts, errOut \in BashStderrs : TimerFires(out, errOut)
    \/ \E reason \in CtxErrors, out \in PartialStdouts, errOut \in BashStderrs :
          CancelDuringTurn(reason, out, errOut)
    \/ BashReturns
    \/ BashReturned
    \/ \E fs \in FsOutcomes : ExecuteFileRead(fs)
    \/ \E fs \in FsOutcomes : ExecuteFileWrite(fs)

SpecCancel == InitCall /\ [][NextCancel]_vars


\* ---------------------------------------------------------------- claims: cancellation
\* the positions of the trace after the caller's context was cancelled
AfterCancel ==
    {b \in TracePos : \E a \in 1..(b - 1) : trace[a].ev = "cancel"}

\* the tool calls of the response that were still to be processed when
\* the context was cancelled: executeToolCall was entered for them afterwards
RemainingCalls == {trace[b].k : b \in {c \in AfterCancel : trace[c].ev = "executeToolCall"}}

\* the filesystem calls that write
WriteOps == {"MkdirAll", "OpenFile", "WriteString", "WriteFile"}

\* no remaining call reached the gate or its tool's Execute
NoneExecuted ==
    /\ \A b \in AfterCancel :
          trace[b].ev \in {"confirmFn", "Execute"} /\ trace[b].it > 0 =>
              trace[b].k \notin RemainingCalls
    /\ RemainingCalls # {} => \A j \in 1..Len(fsCalls) : fsCalls[j].op \notin WriteOps

\* the run fails at its next service call at the latest
EndsFailed ==
    /\ Cardinality({b \in AfterCancel : trace[b].ev = "GenerateContent"}) <= 1
    /\ (\E b \in AfterCancel : trace[b].ev = "response") => pc = "done"
    /\ pc = "done" => ~result.Success /\ result.Error # Nil /\ err # Nil

\* C32: once the caller's context is cancelled during a turn, the remaining
\* tool calls of that response are not executed (no further gate prompt,
\* subprocess or file write), and the run ends Failed no later than its next
\* service call.
C32_CancellationStops == callerCtx # Nil => NoneExecuted /\ EndsFailed

\* what does hold after a cancellation: no subprocess is started for a bash
\* call entered afterwards, and the run fails at its next service call
C32_FailsAtNextServiceCall ==
    callerCtx # Nil =>
        /\ EndsFailed
        /\ (\E b \in AfterCancel : trace[b].ev = "Execute" /\ trace[b].it = 0) =>
              /\ cmd.stdout = <<>> /\ cmd.stderr = <<>>
              /\ cmd.err = callerCtx
              /\ \A b \in TracePos : trace[b].ev # "exit"


\* ---------------------------------------------------------------- claims: termination
\* the agent loop when every call it waits for returns: the service call,
\* the gate call and the tool execution; Run's own steps are taken as its
\* goroutine runs
FairSpec ==
    /\ Spec
    /\ WF_vars(CallService)
    /\ WF_vars(MaxIterationsReached)
    /\ WF_vars(\E r \in ServiceOutcomes : ServiceReturns(r[1], r[2]))
    /\ WF_vars(Dispatch)
    /\ WF_vars(\E g \in GateOutcomes : GateReturns(g[1], g[2]))
    /\ WF_vars(\E x \in ExecuteOutcomes : ToolReturns(x[1], x[2]))

\* Run has returned, Succeeded or Failed
Terminal == pc = "done" /\ (result.Success \/ result.Error # Nil)

\* the service calls a budget of MaxIterations allows
Budget == IF config.MaxIterations > 0 THEN config.MaxIterations ELSE 0

C34_IterationAccounting ==
    pc # "idle" =>
        /\ result.Iterations = ServiceCalls
        /\ result.Iterations <= config.MaxIterations

\* C34, amended: Result.Iterations equals the number of service calls
\* issued so far in the run and never exceeds MaxIterations when that is
\* not negative; under a negative MaxIterations it stays 0.
C34_IterationsWithinBudget ==
    pc # "idle" =>
        /\ result.Iterations = ServiceCalls
        /\ result.Iterations <= Budget
        /\ config.MaxIterations >= 0 => result.Iterations <= config.MaxIterations
        /\ config.MaxIterations < 0 => result.Iterations = 0

\* the second service call of a run is in flight
C34_Witness ==
    /\ pc = "llm"
    /\ ServiceCalls = 2
    /\ result.Iterations = 2


\* C35: whenever Run returns, exactly one of Result.Success = true and
\* Result.Error # nil holds, and FinalAnswer is non-empty only when Success
\* is true.
C35_TerminalConsistency ==
    pc = "done" =>
        /\ result.Success <=> result.Error = Nil
        /\ result.FinalAnswer # "" => result.Success

\* a run that executed a tool and then failed: no final answer, an error
C35_Witness ==
    /\ pc = "done"
    /\ result.ToolsUsed # <<>>
    /\ ~result.Success
    /\ result.Error # Nil
    /\ result.FinalAnswer = ""


\* ---------------------------------------------------------------- claims: execution flags
\* the position in the trace at which the n-th ToolExecution was recorded
RecordedAt(n) ==
    CHOOSE a \in TracePos : trace[a].ev = "AddToolResult" /\ ToolResultsUpTo(a) = n

\* what the gate returned for call (it, n), when it was asked and has returned
GateAnswers(it, n) == {trace[b].val : b \in {c \in TracePos : IsEvent(c, "confirmReturn", it, n)}}

\* the gate answers that carry an error
GateErrorAnswers == {GateReturnText(g[1], g[2]) : g \in {h \in GateOutcomes : h[2] # Nil}}

\* the tool named by call (it, n) was not found in the registry
LookupFailed(it, n) ==
    \E b \in TracePos : IsEvent(b, "executeToolCall", it, n) /\ trace[b].val \notin DOMAIN registry

\* C36: in every recorded ToolExecution, Approved and Skipped are never both
\* true; Skipped is true only if the gate was invoked and returned
\* approved = false; Approved is true iff the tool's Execute was invoked; a
\* lookup failure or a gate error leaves both false with Error set.
C36_FlagConsistency ==
    \A n \in 1..Len(result.ToolsUsed) :
        LET e == result.ToolsUsed[n]
            it == trace[RecordedAt(n)].it
            c == trace[RecordedAt(n)].k
        IN /\ ~(e.Approved /\ e.Skipped)
           /\ e.Skipped => GateAsked(it, c) /\ GateAnswers(it, c) = {GateReturnText(FALSE, Nil)}
           /\ e.Approved <=> Executed(it, c)
           /\ LookupFailed(it, c) \/ GateAnswers(it, c) \cap GateErrorAnswers # {} =>
                 ~e.Approved /\ ~e.Skipped /\ e.Error # Nil

\* one response's two calls are recorded: the first failed at the gate,
\* which denied it with an error, the second was skipped
C36_Witness ==
    /\ Len(result.ToolsUsed) = 2
    /\ result.ToolsUsed[1].Error # Nil /\ ~result.ToolsUsed[1].Approved
    /\ GateAnswers(1, 1) = {GateReturnText(FALSE, "confirm failed")}
    /\ result.ToolsUsed[2].Skipped


\* ---------------------------------------------------------------- claims: empty response
\* the kinds of response whose first choice has no tool calls, no text and
\* a stop reason that is no completion signal
EmptyNonTerminal ==
    {ResponseKind(<<c>>, Nil) :
        c \in {x \in Choice : /\ x.ToolCalls = <<>> /\ x.Content = ""
                              /\ x.StopReason \notin {"end_turn", "stop"}}}

\* the positions of the responses of that kind
EmptyResponses ==
    {a \in TracePos : trace[a].ev = "response" /\ trace[a].val \in EmptyNonTerminal}

\* C37: a response whose first choice has no tool calls, empty text and a
\* stop reason that is no completion signal neither ends the run nor
\* appends anything to the Context; it uses up one iteration, and the next
\* service call, if the budget allows one, is issued with the same message
\* list; a run in which this repeats ends in the max-iteration failure.
C37_EmptyNonTerminal ==
    /\ \A a \in EmptyResponses :
          LET it == trace[a].it
              sent == trace[a - 1].msgs
          IN /\ trace[a - 1].ev = "GenerateContent" /\ trace[a - 1].it = it
             /\ a + 1 <= Len(trace) /\ trace[a + 1].ev = "choice"
             /\ a + 1 = Len(trace) =>
                   /\ ToLangchainMessages(TheContext) = sent
                   /\ i = it
                   /\ result.Iterations = it
                   /\ ~result.Success
                   /\ \/ pc = "loop" /\ result.Error = Nil
                      \/ /\ pc = "done" /\ it >= config.MaxIterations
                         /\ result.Error = MaxIterationsError(config.MaxIterations)
             /\ a + 1 < Len(trace) =>
                   /\ it < config.MaxIterations
                   /\ trace[a + 2] = ServiceCallEvent(it + 1, sent)
    /\ pc = "done" /\ EmptyResponses # {}
          /\ Cardinality(EmptyResponses) = ServiceCalls =>
             /\ ServiceCalls = config.MaxIterations
             /\ result.Error = MaxIterationsError(config.MaxIterations)
             /\ appended = <<Message("user", trace[1].val, "", <<>>)>>

\* two empty non-terminal responses in a row, the second call made with
\* the messages of the first, and the run ended by the iteration limit
C37_Witness ==
    /\ pc = "done"
    /\ Cardinality(EmptyResponses) = 2
    /\ \E a \in EmptyResponses : /\ a + 2 \in TracePos
                                /\ trace[a + 2].ev = "GenerateContent"
                                /\ trace[a + 2].msgs = trace[a - 1].msgs
    /\ result.Error = MaxIterationsError(2)


\* ---------------------------------------------------------------- claims: iteration budget
\* C38: with MaxIterations <= 0, Run makes no service call and executes no
\* tool; it returns the max-iteration failure with Result.Iterations = 0,
\* having appended the user prompt to the Context.
C38_NonPositiveBudget ==
    config.MaxIterations <= 0 /\ pc # "idle" =>
        /\ pc \in {"loop", "done"}
        /\ ServiceCalls = 0
        /\ Len(trace) = 1 /\ trace[1].ev = "AddUserMessage"
        /\ returned = <<>> /\ gateArgs = <<>>
        /\ result.ToolsUsed = <<>>
        /\ result.Iterations = 0
        /\ Messages = <<Message("user", trace[1].val, "", <<>>)>>
        /\ pc = "done" =>
              /\ err = "max iterations (" \o FormatInt(config.MaxIterations) \o ") reached"
              /\ result.Error = err
              /\ ~result.Success
              /\ result.FinalAnswer = ""

\* Run has returned under the zero value of Config
C38_Witness ==
    /\ config.MaxIterations = 0
    /\ ~config.AutoApprove
    /\ pc = "done"
    /\ result.Error = "max iterations (0) reached"
    /\ Len(Messages) = 1


\* ---------------------------------------------------------------- runs on one Agent
\* specification: an Agent, set up as runAgentMode does (New, then
\* SetSystemPrompt), on which Run is called again after it returned, with
\* or without a Reset in between; the trace goes on across the runs

\* the number of Run calls explored on one Agent
MaxRuns == 2

InitRuns ==
    /\ SystemPrompt \in SystemPrompts
    /\ Messages = NewContext("").Messages
    /\ MaxMessages \in {DefaultMaxMessages, MaxWindow}
    /\ appended = <<>>
    /\ registry = DefaultRegistry
    /\ config \in [AutoApprove : {TRUE}, MaxIterations : 0..MaxIter]
    /\ confirmFn = FALSE
    /\ pc = "idle"
    /\ i = 0
    /\ result = NewResult
    /\ err = Nil
    /\ toolCalls = <<>>
    /\ k = 0
    /\ execution = NewToolExecution([Name |-> "", Arguments |-> ""])
    /\ trace = <<>>
    /\ nToolCalls = 0
    /\ returned = <<>>
    /\ registered = <<>>
    /\ observed = NoObservation
    /\ gateArgs = <<>>
    /\ InitLock
    /\ InitTool

\* the Run calls made so far
RunsStarted == Cardinality({a \in TracePos : trace[a].ev = "AddUserMessage"})

\* a Run that starts from an empty Context
RunAgain_startsOver(userPrompt) ==
    /\ pc = "done"
    /\ RunsStarted < MaxRuns
    /\ result' = NewResult
    /\ err' = Nil
    /\ Messages' = AddUserMessage(<<>>, MaxMessages, userPrompt)
    /\ appended' = Append(appended, Message("user", userPrompt, "", <<>>))
    /\ i' = 0
    /\ trace' = Append(trace, Event("AddUserMessage", 0, 0, userPrompt))
    /\ pc' = "loop"
    /\ UNCHANGED <<SystemPrompt, MaxMessages, registry, config, confirmFn,
                   toolCalls, k, execution, nToolCalls, returned, registered, observed,
                   gateArgs, lockVars, toolVars>>

\* Run is called on an Agent whose earlier Run has returned: fresh Result,
\* the user prompt is appended to the Context as it is
RunAgain(userPrompt) ==
    /\ pc = "done"
    /\ RunsStarted < MaxRuns
    /\ result' = NewResult
    /\ err' = Nil
    /\ Messages' = AddUserMessage(Messages, MaxMessages, userPrompt)
    /\ appended' = Append(appended, Message("user", userPrompt, "", <<>>))
    /\ i' = 0
    /\ trace' = Append(trace, Event("AddUserMessage", 0, 0, userPrompt))
    /\ pc' = "loop"
    /\ UNCHANGED <<SystemPrompt, MaxMessages, registry, config, confirmFn,
                   toolCalls, k, execution, nToolCalls, returned, registered, observed,
                   gateArgs, lockVars, toolVars>>

\* Agent.Reset between two runs: a.context.Clear()
ResetAgent ==
    /\ pc = "done"
    /\ RunsStarted < MaxRuns
    /\ trace[Len(trace)].ev # "Reset"
    /\ SystemPrompt' = Clear(TheContext).SystemPrompt
    /\ Messages' = Clear(TheContext).Messages
    /\ MaxMessages' = Clear(TheContext).MaxMessages
    /\ appended' = <<>>
    /\ trace' = Append(trace, Event("Reset", 0, 0, ""))
    /\ UNCHANGED <<observed, restVars>>

\* what the service answers in these runs: a bash call, a final text, an
\* empty response that ends nothing, or an error
RunsResponses ==
    {<<<<[Content |-> "", ToolCalls |-> <<[ID |-> "c1", Name |-> "bash",
                                          Arguments |-> "{\"command\":\"echo hi\"}"]>>,
          StopReason |-> "stop"]>>, Nil>>,
     <<<<[Content |-> "Done", ToolCalls |-> <<>>, StopReason |-> "stop"]>>, Nil>>,
     <<<<[Content |-> "", ToolCalls |-> <<>>, StopReason |-> "length"]>>, Nil>>,
     <<<<>>, "service unavailable">>}

NextRuns ==
    \/ \E p \in UserPrompts : Run(p)
    \/ \E p \in UserPrompts : RunAgain(p)
    \/ ResetAgent
    \/ CallService
    \/ MaxIterationsReached
    \/ \E r \in RunsResponses : ServiceReturns(r[1], r[2])
    \/ Dispatch
    \/ ToolReturns(Output(TRUE, "hi\n", ""), Nil)

SpecRuns == InitRuns /\ [][NextRuns]_vars


\* ---------------------------------------------------------------- claims: context between runs
\* the last n elements of s
Last(s, n) == SubSeq(s, Len(s) - n + 1, Len(s))

\* the system prompt as ToLangchainMessages renders it
SystemPart == IF SystemPrompt # "" THEN <<TextParts("system", SystemPrompt)>> ELSE <<>>

\* the positions at which a Run after the first appended its prompt
LaterRuns == {a \in TracePos : a > 1 /\ trace[a].ev = "AddUserMessage"}

\* the appends to the Context since it was last reset
AppendsSinceReset ==
    {b \in AppendEvents : \A c \in TracePos : trace[c].ev = "Reset" => c < b}

\* C39: unless Reset is called, a second Run on the same Agent starts from
\* the Context left by the first, whether that run succeeded, failed or
\* used up its iterations: its first service call sees the retained messages
\* of the earlier run followed by the new user prompt; after Reset it sees
\* only the system prompt and the new user prompt.
C39_ContextCarriesOver ==
    \A a \in LaterRuns :
        a + 1 = Len(trace) /\ trace[a + 1].ev = "GenerateContent" =>
            LET sent == trace[a + 1].msgs
                prompt == TextParts("human", trace[a].val)
            IN IF trace[a - 1].ev = "Reset"
               THEN sent = SystemPart \o <<prompt>>
               ELSE /\ Len(appended) = Cardinality(AppendsSinceReset)
                    /\ sent = SystemPart
                              \o RenderMessages(Last(appended,
                                                     Min(Len(appended), MaxMessages)))
                    /\ sent[Len(sent)] = prompt
                    /\ Len(sent) > Len(SystemPart) + 1

\* the first run used up its iterations on a tool call; the first service
\* call of the second run is in flight and was handed the first run's
\* three messages before the new prompt
C39_Witness ==
    \E a \in LaterRuns :
        /\ a + 1 = Len(trace) /\ trace[a + 1].ev = "GenerateContent"
        /\ trace[a - 1].ev = "AddToolResult"
        /\ MaxMessages = DefaultMaxMessages
        /\ SystemPrompt # ""
        /\ Len(trace[a + 1].msgs) = 5


\* ---------------------------------------------------------------- claims: error prefix
\* the texts a ToolExecution can carry as its Error or its Output
ErrorTexts ==
    {x[2] : x \in ExecuteOutcomes} \cup {g[2] : g \in GateOutcomes}
    \cup {Get(registry, n).err : n \in ToolNames}
OutputTexts == {ExecutionOutput(x[1]) : x \in ExecuteOutcomes} \cup {"", SkipNotice}

\* text starts with the prefix "Error: "
HasErrorPrefix(text) ==
    \E x \in (ErrorTexts \cup OutputTexts) \ {Nil} : text = "Error: " \o x

\* what the Execute call of call (it, n) returned: the calls return in the
\* order in which they were made
ReturnOfExecute(it, n) ==
    returned[Cardinality({b \in TracePos :
                             /\ trace[b].ev = "Execute"
                             /\ \/ trace[b].it < it
                                \/ trace[b].it = it /\ trace[b].k <= n})]

\* C40: the tool result fed back carries the "Error: " prefix exactly when
\* ToolExecution.Error is set, which happens only on a lookup failure, a
\* gate error or a Go error returned by the tool's Execute; a tool that
\* reports its failure through Output.Success = false leaves Error nil and
\* its failure text is fed back without the prefix, as ordinary output.
C40_ErrorPrefix ==
    \A n \in 1..Len(result.ToolsUsed) :
        LET e == result.ToolsUsed[n]
            it == trace[RecordedAt(n)].it
            c == trace[RecordedAt(n)].k
            text == ToolMessages[n].Content
        IN /\ HasErrorPrefix(text) <=> e.Error # Nil
           /\ e.Error # Nil => text = "Error: " \o e.Error
           /\ e.Error # Nil <=>
                 \/ LookupFailed(it, c)
                 \/ GateAnswers(it, c) \cap GateErrorAnswers # {}
                 \/ Executed(it, c) /\ ReturnOfExecute(it, c)[2] # Nil
           /\ Executed(it, c) /\ ReturnOfExecute(it, c)[2] = Nil
                 /\ ~ReturnOfExecute(it, c)[1].Success =>
                    /\ e.Error = Nil
                    /\ e.Output = ExecutionOutput(ReturnOfExecute(it, c)[1])
                    /\ text = e.Output

\* a response's two calls are recorded: the first tool failed through its
\* Output, with some output before the failure, the second returned a Go error
C40_Witness ==
    /\ Len(result.ToolsUsed) = 2
    /\ result.ToolsUsed[1].Error = Nil
    /\ ToolMessages[1].Content = "partial\nexit status 1"
    /\ result.ToolsUsed[2].Error = "execute failed"
    /\ ToolMessages[2].Content = "Error: execute failed"


\* the tools of the default registry never return a Go error: an executed
\* bash, file_read or file_write call has no Error, and what it reported,
\* failure or not, is fed back as it is
C40_ToolsReportThroughOutput ==
    /\ \A j \in 1..Len(returned) : returned[j][2] = Nil
    /\ \A n \in 1..Len(result.ToolsUsed) :
          result.ToolsUsed[n].Approved =>
              /\ result.ToolsUsed[n].Error = Nil
              /\ ToolMessages[n].Content = result.ToolsUsed[n].Output

====
